---- MODULE Spec2Model ----
(***************************************************************************)
(* Model of the meeting-record normalisation functions of                  *)
(* gavel_meeting_tool.py.  Text is a sequence of one-character strings, a  *)
(* JSON object is a function whose DOMAIN is the set of keys it holds, and *)
(* every function of the source is an operator computed the way the source *)
(* computes it.                                                            *)
(***************************************************************************)
EXTENDS Integers, Sequences, FiniteSets, TLC

VARIABLES meeting, meetings, encoders, categories, op, result,
          start_date, end_date, current, meetings_by_date, fetched, form

\* the state of a request for a range of dates and of a posted export form
requestVars == <<start_date, end_date, current, meetings_by_date, fetched, form>>

vars == <<meeting, meetings, encoders, categories, op, result, requestVars>>

-----------------------------------------------------------------------------
(* Bounds of the model *)

MaxSlices == 3

MaxDescSlices == 4

MaxMeetings == 2

\* the number of leading days of a range whose fetch may return anything but
\* an empty list of meetings
MaxWatchedDays == 2

-----------------------------------------------------------------------------
(* Python values: text, None, dictionaries *)

None == <<"None">>

Truthy(v) == v # None /\ v # << >>

Get(d, k, default) == IF k \in DOMAIN d THEN d[k] ELSE default

LowerCase == <<"a", "b", "c", "d", "e", "f", "g", "h", "i", "j", "k", "l", "m", "n", "o", "p", "q", "r", "s", "t", "u", "v", "w", "x", "y", "z">>

UpperCase == <<"A", "B", "C", "D", "E", "F", "G", "H", "I", "J", "K", "L", "M", "N", "O", "P", "Q", "R", "S", "T", "U", "V", "W", "X", "Y", "Z">>

IsLower(c) == \E i \in 1..26 : LowerCase[i] = c

IsUpper(c) == \E i \in 1..26 : UpperCase[i] = c

IsCased(c) == IsLower(c) \/ IsUpper(c)

upper_char(c) == IF IsLower(c) THEN UpperCase[CHOOSE i \in 1..26 : LowerCase[i] = c] ELSE c

lower_char(c) == IF IsUpper(c) THEN LowerCase[CHOOSE i \in 1..26 : UpperCase[i] = c] ELSE c

upper(s) == [i \in 1..Len(s) |-> upper_char(s[i])]

lower(s) == [i \in 1..Len(s) |-> lower_char(s[i])]

SpaceChars == {" ", "\t", "\n", "\r"}

IsSpace(c) == c \in SpaceChars

RECURSIVE lstrip(_)
lstrip(s) == IF s # << >> /\ IsSpace(Head(s)) THEN lstrip(Tail(s)) ELSE s

RECURSIVE rstrip(_)
rstrip(s) == IF s # << >> /\ IsSpace(s[Len(s)]) THEN rstrip(SubSeq(s, 1, Len(s) - 1)) ELSE s

strip(s) == rstrip(lstrip(s))

endswith(s, suffix) == Len(suffix) <= Len(s) /\ SubSeq(s, Len(s) - Len(suffix) + 1, Len(s)) = suffix

contains(s, sub) == \E i \in 1..(Len(s) - Len(sub) + 1) : SubSeq(s, i, i + Len(sub) - 1) = sub

\* str.find: the index of the first occurrence of sub in s, 0 when there is none
find(s, sub) ==
    IF contains(s, sub)
    THEN CHOOSE i \in 1..(Len(s) - Len(sub) + 1) :
            /\ SubSeq(s, i, i + Len(sub) - 1) = sub
            /\ \A j \in 1..(i - 1) : SubSeq(s, j, j + Len(sub) - 1) # sub
    ELSE 0

\* str.replace with a non-empty old: the occurrences are taken left to right
\* and do not overlap
RECURSIVE replace(_, _, _)
replace(s, old, new) ==
    IF find(s, old) = 0 THEN s
    ELSE SubSeq(s, 1, find(s, old) - 1) \o new
         \o replace(SubSeq(s, find(s, old) + Len(old), Len(s)), old, new)

\* str.title(): a cased character is upper-cased when the character before
\* it is not cased, lower-cased otherwise
title(s) ==
    [i \in 1..Len(s) |->
        IF i > 1 /\ IsCased(s[i - 1]) THEN lower_char(s[i]) ELSE upper_char(s[i])]

RECURSIVE join(_, _)
join(sep, parts) ==
    IF parts = << >> THEN << >>
    ELSE IF Len(parts) = 1 THEN parts[1]
    ELSE parts[1] \o sep \o join(sep, Tail(parts))

\* str(v) as an f-string renders it
format_value(v) == IF v = None THEN <<"N", "o", "n", "e">> ELSE v

-----------------------------------------------------------------------------
(* Text constants of the source *)

MEETING_CANCELED == <<"M", "E", "E", "T", "I", "N", "G", " ", "C", "A", "N", "C", "E", "L", "E", "D">>

-----------------------------------------------------------------------------
(* extract_bills_with_details *)

NoBill == None

SliceBillRoot(slice) == Get(slice, "BillRoot", << >>)

SliceHighlight(slice) == Get(slice, "SliceHighliteText", << >>)

IsCancelMarker(highlight_text) == contains(upper(highlight_text), MEETING_CANCELED)

StartsNewGroup_FirstOnly(bill_root, current_bill) == Truthy(bill_root) /\ ~Truthy(current_bill)

\* line 187
StartsNewGroup(bill_root, current_bill) == Truthy(bill_root) /\ bill_root # current_bill

ShouldFlush_Always(current_bill, current_details) == Truthy(current_bill)

\* lines 189 and 205
ShouldFlush(current_bill, current_details) == Truthy(current_bill) /\ current_details # << >>

IsDetail_OwnSlicesOnly(current_bill, bill_root, highlight_text) ==
    /\ Truthy(bill_root)
    /\ Truthy(highlight_text)
    /\ ~IsCancelMarker(highlight_text)
    /\ bill_root # highlight_text

\* lines 197-199
IsDetail(current_bill, bill_root, highlight_text) ==
    /\ Truthy(current_bill)
    /\ Truthy(highlight_text)
    /\ ~IsCancelMarker(highlight_text)
    /\ ~(Truthy(bill_root) /\ bill_root = highlight_text)

\* one iteration of the first loop (lines 178-202)
GroupStep(st, slice) ==
    LET bill_root == SliceBillRoot(slice)
        highlight_text == SliceHighlight(slice)
    IN  IF ~Truthy(bill_root) /\ ~Truthy(highlight_text) THEN st
        ELSE
          LET fresh == StartsNewGroup(bill_root, st.current_bill)
              saved == IF fresh /\ ShouldFlush(st.current_bill, st.current_details)
                       THEN Append(st.bill_details,
                                   [bill |-> st.current_bill, details |-> st.current_details])
                       ELSE st.bill_details
              bill == IF fresh THEN bill_root ELSE st.current_bill
              details == IF fresh THEN << >> ELSE st.current_details
              add == IsDetail(bill, bill_root, highlight_text)
          IN  [bill_details |-> saved,
               current_bill |-> bill,
               current_details |-> IF add THEN Append(details, highlight_text) ELSE details,
               used_details |-> IF add THEN st.used_details \cup {highlight_text}
                                ELSE st.used_details]

RECURSIVE GroupLoop(_, _)
GroupLoop(st, slices) ==
    IF slices = << >> THEN st ELSE GroupLoop(GroupStep(st, Head(slices)), Tail(slices))

IsGeneralItem_IgnoreUsed(slice, used_details, general_items) ==
    LET bill_root == SliceBillRoot(slice)
        highlight_text == SliceHighlight(slice)
    IN  /\ ~Truthy(bill_root)
        /\ Truthy(highlight_text)
        /\ ~IsCancelMarker(highlight_text)
        /\ \A k \in 1..Len(general_items) : general_items[k] # highlight_text

\* lines 214-216
IsGeneralItem(slice, used_details, general_items) ==
    LET bill_root == SliceBillRoot(slice)
        highlight_text == SliceHighlight(slice)
    IN  /\ ~Truthy(bill_root)
        /\ Truthy(highlight_text)
        /\ ~IsCancelMarker(highlight_text)
        /\ highlight_text \notin used_details
        /\ \A k \in 1..Len(general_items) : general_items[k] # highlight_text

RECURSIVE GeneralLoop(_, _, _)
GeneralLoop(general_items, used_details, slices) ==
    IF slices = << >> THEN general_items
    ELSE GeneralLoop(IF IsGeneralItem(Head(slices), used_details, general_items)
                     THEN Append(general_items, SliceHighlight(Head(slices)))
                     ELSE general_items,
                     used_details, Tail(slices))

extract_bills_with_details(m) ==
    LET meeting_slices == Get(m, "MeetingSlices", << >>)
        st == GroupLoop([bill_details |-> << >>, current_bill |-> NoBill,
                         current_details |-> << >>, used_details |-> {}],
                        meeting_slices)
        bill_details == IF ShouldFlush(st.current_bill, st.current_details)
                        THEN Append(st.bill_details,
                                    [bill |-> st.current_bill, details |-> st.current_details])
                        ELSE st.bill_details
    IN  [bill_details |-> bill_details,
         general_items |-> GeneralLoop(<< >>, st.used_details, meeting_slices)]

-----------------------------------------------------------------------------
(* Field extractors: get_chamber, build_title, generate_custom_id *)

Senate == <<"S", "e", "n", "a", "t", "e">>

House == <<"H", "o", "u", "s", "e">>

StandingCommittee == <<"S", "t", "a", "n", "d", "i", "n", "g", " ", "C", "o", "m", "m", "i", "t", "t", "e", "e">>

SpecialCommittee == <<"S", "p", "e", "c", "i", "a", "l", " ", "C", "o", "m", "m", "i", "t", "t", "e", "e">>

FinanceSubCommittee == <<"F", "i", "n", "a", "n", "c", "e", " ", "S", "u", "b", "C", "o", "m", "m", "i", "t", "t", "e", "e">>

unknown == <<"u", "n", "k", "n", "o", "w", "n">>

get_chamber_SenateOnly(m) ==
    IF Get(m, "Chamber", None) = <<"S">> THEN Senate ELSE None

get_chamber(m) ==
    LET chamber == Get(m, "Chamber", None)
    IN  IF chamber = <<"S">> THEN Senate
        ELSE IF chamber = <<"H">> THEN House
        ELSE None

build_title(m) ==
    LET raw == Get(m, "MeetingTitle", << >>)
        chamber == get_chamber(m)
        committee == title(raw)
        sponsor_type == Get(m, "SponsorType", None)
    IN  IF ~Truthy(raw) THEN << >>
        ELSE IF sponsor_type = StandingCommittee /\ Truthy(chamber)
             THEN chamber \o <<" ">> \o committee \o <<" ", "C", "o", "m", "m", "i", "t", "t", "e", "e">>
        ELSE IF sponsor_type = SpecialCommittee /\ Truthy(chamber)
             THEN chamber \o <<" ">> \o committee
                  \o <<" ", "S", "p", "e", "c", "i", "a", "l", " ", "C", "o", "m", "m", "i", "t", "t", "e", "e">>
        ELSE IF sponsor_type = FinanceSubCommittee /\ Truthy(chamber)
             THEN chamber \o <<" ", "F", "i", "n", "a", "n", "c", "e", ":", " ">> \o committee
                  \o <<" ", "S", "u", "b", "c", "o", "m", "m", "i", "t", "t", "e", "e">>
        ELSE title(raw)

generate_custom_id_RawTime(m) ==
    LET date_str == Get(m, "MeetingDate", << >>)
        time_str == Get(m, "MeetingTime", << >>)
    IN  IF ~Truthy(date_str) \/ ~Truthy(time_str) THEN unknown
        ELSE format_value(Get(m, "Chamber", << >>)) \o <<"-">>
             \o format_value(Get(m, "MeetingSponsor", << >>))
             \o replace(date_str, <<"-">>, << >>) \o time_str

generate_custom_id(m) ==
    LET date_str == Get(m, "MeetingDate", << >>)
        time_str == Get(m, "MeetingTime", << >>)
        chamber == Get(m, "Chamber", << >>)
        sponsor == Get(m, "MeetingSponsor", << >>)
    IN  IF ~Truthy(date_str) \/ ~Truthy(time_str) THEN unknown
        ELSE format_value(chamber) \o <<"-">> \o format_value(sponsor)
             \o replace(date_str, <<"-">>, << >>) \o replace(time_str, <<":">>, << >>)

-----------------------------------------------------------------------------
(* Event filter: should_skip_event *)

no_meeting_scheduled == <<"n", "o", " ", "m", "e", "e", "t", "i", "n", "g", " ", "s", "c", "h", "e", "d", "u", "l", "e", "d">>

NormalizeHighlight_NoStrip(highlight) == lower(highlight)

\* line 290: .strip().lower()
NormalizeHighlight(highlight) == lower(strip(highlight))

RECURSIVE SkipLoop_FirstSliceOnly(_)
SkipLoop_FirstSliceOnly(slices) ==
    IF slices = << >> THEN "False"
    ELSE IF SliceHighlight(Head(slices)) = None THEN "AttributeError"
    ELSE IF NormalizeHighlight(SliceHighlight(Head(slices))) = no_meeting_scheduled THEN "True"
    ELSE "False"

\* lines 289-294; None has no strip(), the call raises AttributeError
RECURSIVE SkipLoop(_)
SkipLoop(slices) ==
    IF slices = << >> THEN "False"
    ELSE IF SliceHighlight(Head(slices)) = None THEN "AttributeError"
    ELSE IF NormalizeHighlight(SliceHighlight(Head(slices))) = no_meeting_scheduled THEN "True"
    ELSE SkipLoop(Tail(slices))

\* "True", "False", or the exception the call ends with
should_skip_event(m) == SkipLoop(Get(m, "MeetingSlices", << >>))

\* a call that ends with an exception instead of a value
Raised(exception) == [raised |-> exception]

\* lines 734 and 797: should_skip_event raises for a record of the list, and
\* the exception leaves the loop
SkipRaises(ms) == \E i \in 1..Len(ms) : should_skip_event(ms[i]) = "AttributeError"

-----------------------------------------------------------------------------
(* Description builder: build_description *)

CanceledMarker == <<"*", "*", " ", "M", "E", "E", "T", "I", "N", "G", " ", "C", "A", "N", "C", "E", "L", "E", "D", " ", "*", "*">>

StreamedLive == <<"*", "*", "S", "t", "r", "e", "a", "m", "e", "d", " ", "l", "i", "v", "e", " ", "o", "n", " ", "A", "K", "L", ".", "t", "v", "*", "*">>

Separator == <<" ", "|", " ">>

\* lines 246-250: the ShortTitle of the first slice of the bill that has the key
RECURSIVE ShortTitleOf(_, _)
ShortTitleOf(slices, bill) ==
    IF slices = << >> THEN << >>
    ELSE IF Get(Head(slices), "BillRoot", None) = bill /\ "ShortTitle" \in DOMAIN Head(slices)
         THEN Head(slices)["ShortTitle"]
    ELSE ShortTitleOf(Tail(slices), bill)

\* lines 241-261
BillText(m, item) ==
    LET short_title == ShortTitleOf(Get(m, "MeetingSlices", << >>), item.bill)
    IN  IF item.details # << >>
        THEN (IF Truthy(short_title) THEN item.bill \o <<" ">> \o short_title ELSE item.bill)
             \o <<" ">> \o join(<<" ">>, item.details)
        ELSE item.bill

\* lines 278-279
RECURSIVE CollapseSeparators(_)
CollapseSeparators(description) ==
    IF contains(description, <<" ", "|", " ", "|">>)
    THEN CollapseSeparators(replace(description, <<" ", "|", " ", "|">>, <<" ", "|">>))
    ELSE description

\* lines 276-281
StripStreaming(description) ==
    LET cleaned == strip(replace(replace(description, StreamedLive, << >>),
                                 <<" ", "|", " ", " ", "|", " ">>, Separator))
        collapsed == CollapseSeparators(cleaned)
    IN  IF endswith(collapsed, Separator)
        THEN SubSeq(collapsed, 1, Len(collapsed) - 3)
        ELSE collapsed

build_description(m, for_csv) ==
    LET extracted == extract_bills_with_details(m)
        bill_details == extracted.bill_details
        general_items == extracted.general_items
        canceled_part == IF Get(m, "MeetingCanceled", FALSE) = TRUE THEN <<CanceledMarker>> ELSE << >>
        bills_part == IF bill_details # << >>
                      THEN <<<<"B", "i", "l", "l", "s", ":", " ">>
                             \o join(<<",", " ">>,
                                     [g \in 1..Len(bill_details) |-> BillText(m, bill_details[g])])>>
                      ELSE << >>
        general_part == IF general_items # << >> THEN <<join(Separator, general_items)>> ELSE << >>
        description == join(Separator, canceled_part \o bills_part \o general_part)
    IN  IF for_csv THEN StripStreaming(description) ELSE description

-----------------------------------------------------------------------------
(* datetime.strptime(text, "%Y-%m-%d %H:%M:%S") and strftime of the same format *)

DigitChars == <<"0", "1", "2", "3", "4", "5", "6", "7", "8", "9">>

IsDigit(c) == \E i \in 1..10 : DigitChars[i] = c

DigitValue(c) == (CHOOSE i \in 1..10 : DigitChars[i] = c) - 1

AllDigits(s) == s # << >> /\ \A i \in 1..Len(s) : IsDigit(s[i])

RECURSIVE ToNat(_)
ToNat(s) == IF s = << >> THEN 0 ELSE ToNat(SubSeq(s, 1, Len(s) - 1)) * 10 + DigitValue(s[Len(s)])

\* a directive of one or two digits with a value in lo..hi
NumberIn(token, lo, hi) ==
    AllDigits(token) /\ Len(token) <= 2 /\ ToNat(token) >= lo /\ ToNat(token) <= hi

\* first index at or after from whose character is (wanted) or is not in chars,
\* 0 when there is none
FirstIndex(s, from, chars, wanted) ==
    IF \E i \in from..Len(s) : (s[i] \in chars) = wanted
    THEN CHOOSE i \in from..Len(s) :
            /\ (s[i] \in chars) = wanted
            /\ \A j \in from..(i - 1) : (s[j] \in chars) # wanted
    ELSE 0

IsLeap(y) == (y % 4 = 0 /\ y % 100 # 0) \/ y % 400 = 0

DaysInMonth(y, m) ==
    IF m = 2 THEN (IF IsLeap(y) THEN 29 ELSE 28)
    ELSE IF m \in {4, 6, 9, 11} THEN 30 ELSE 31

NotADate == [ok |-> FALSE, Y |-> 0, m |-> 0, d |-> 0, H |-> 0, M |-> 0, S |-> 0]

\* lines 809, 811: the parsed fields, or ok = FALSE where strptime raises ValueError
strptime(s) ==
    LET h2 == FirstIndex(s, 6, {"-"}, TRUE)
        blankDay == h2 > 0 /\ Len(s) >= h2 + 2 /\ s[h2 + 1] = " "
        w1 == IF h2 = 0 THEN 0
              ELSE IF blankDay THEN (IF Len(s) >= h2 + 3 /\ IsSpace(s[h2 + 3]) THEN h2 + 3 ELSE 0)
              ELSE FirstIndex(s, h2 + 1, SpaceChars, TRUE)
        w2 == IF w1 = 0 THEN 0 ELSE FirstIndex(s, w1, SpaceChars, FALSE)
        c1 == IF w2 = 0 THEN 0 ELSE FirstIndex(s, w2, {":"}, TRUE)
        c2 == IF c1 = 0 THEN 0 ELSE FirstIndex(s, c1 + 1, {":"}, TRUE)
    IN  IF /\ Len(s) >= 5 /\ AllDigits(SubSeq(s, 1, 4)) /\ s[5] = "-"
           /\ c2 > 0
           /\ NumberIn(SubSeq(s, 6, h2 - 1), 1, 12)
           /\ NumberIn(SubSeq(s, IF blankDay THEN h2 + 2 ELSE h2 + 1, w1 - 1), 1, 31)
           /\ (blankDay => s[h2 + 2] # "0")
           /\ NumberIn(SubSeq(s, w2, c1 - 1), 0, 23)
           /\ NumberIn(SubSeq(s, c1 + 1, c2 - 1), 0, 59)
           /\ NumberIn(SubSeq(s, c2 + 1, Len(s)), 0, 59)
           /\ ToNat(SubSeq(s, 1, 4)) >= 1
           /\ ToNat(SubSeq(s, IF blankDay THEN h2 + 2 ELSE h2 + 1, w1 - 1))
                 <= DaysInMonth(ToNat(SubSeq(s, 1, 4)), ToNat(SubSeq(s, 6, h2 - 1)))
        THEN [ok |-> TRUE,
              Y |-> ToNat(SubSeq(s, 1, 4)),
              m |-> ToNat(SubSeq(s, 6, h2 - 1)),
              d |-> ToNat(SubSeq(s, IF blankDay THEN h2 + 2 ELSE h2 + 1, w1 - 1)),
              H |-> ToNat(SubSeq(s, w2, c1 - 1)),
              M |-> ToNat(SubSeq(s, c1 + 1, c2 - 1)),
              S |-> ToNat(SubSeq(s, c2 + 1, Len(s)))]
        ELSE NotADate

RECURSIVE NatText(_)
NatText(n) == IF n < 10 THEN <<DigitChars[n + 1]>> ELSE NatText(n \div 10) \o <<DigitChars[(n % 10) + 1]>>

TwoDigits(n) == <<DigitChars[(n \div 10) + 1], DigitChars[(n % 10) + 1]>>

\* line 810
strftime(dt) ==
    NatText(dt.Y) \o <<"-">> \o TwoDigits(dt.m) \o <<"-">> \o TwoDigits(dt.d) \o <<" ">>
    \o TwoDigits(dt.H) \o <<":">> \o TwoDigits(dt.M) \o <<":">> \o TwoDigits(dt.S)

-----------------------------------------------------------------------------
(* datetime.strptime(text, "%m/%d/%Y"), date arithmetic, strftime("%m/%d/%Y") *)

NotADay == [ok |-> FALSE, Y |-> 0, m |-> 0, d |-> 0]

\* lines 94-96: the parsed date, or ok = FALSE where strptime raises ValueError.
\* The month is one or two digits, the day one or two digits or a blank and a
\* digit, the year four digits, and nothing follows the year.
strptime_date(s) ==
    LET s1 == FirstIndex(s, 1, {"/"}, TRUE)
        s2 == IF s1 = 0 THEN 0 ELSE FirstIndex(s, s1 + 1, {"/"}, TRUE)
        blankDay == s2 = s1 + 3 /\ s[s1 + 1] = " "
        month == SubSeq(s, 1, s1 - 1)
        day == SubSeq(s, IF blankDay THEN s1 + 2 ELSE s1 + 1, s2 - 1)
        year == SubSeq(s, s2 + 1, Len(s))
    IN  IF /\ s2 > 0
           /\ NumberIn(month, 1, 12)
           /\ NumberIn(day, 1, 31)
           /\ (blankDay => day # <<"0">>)
           /\ Len(year) = 4 /\ AllDigits(year)
           /\ ToNat(year) >= 1
           /\ ToNat(day) <= DaysInMonth(ToNat(year), ToNat(month))
        THEN [ok |-> TRUE, Y |-> ToNat(year), m |-> ToNat(month), d |-> ToNat(day)]
        ELSE NotADay

RECURSIVE DaysBeforeMonth(_, _)
DaysBeforeMonth(y, m) == IF m = 1 THEN 0 ELSE DaysBeforeMonth(y, m - 1) + DaysInMonth(y, m - 1)

\* date.toordinal(): the number of the day, 01/01/0001 being day 1
toordinal(dt) ==
    (dt.Y - 1) * 365 + ((dt.Y - 1) \div 4) - ((dt.Y - 1) \div 100) + ((dt.Y - 1) \div 400)
    + DaysBeforeMonth(dt.Y, dt.m) + dt.d

\* line 100: (end - start).days
days_between(start, end) == toordinal(end) - toordinal(start)

MAXYEAR == 9999

\* line 111: current + timedelta(days=1); ok = FALSE where the sum is past
\* 12/31/9999 and the addition raises OverflowError
next_day(dt) ==
    IF dt.d < DaysInMonth(dt.Y, dt.m) THEN [dt EXCEPT !.d = dt.d + 1]
    ELSE IF dt.m < 12 THEN [dt EXCEPT !.m = dt.m + 1, !.d = 1]
    ELSE IF dt.Y < MAXYEAR THEN [dt EXCEPT !.Y = dt.Y + 1, !.m = 1, !.d = 1]
    ELSE NotADay

\* line 108: strftime("%m/%d/%Y")
strftime_date(dt) == TwoDigits(dt.m) \o <<"/">> \o TwoDigits(dt.d) \o <<"/">> \o NatText(dt.Y)

-----------------------------------------------------------------------------
(* Display formats of dates and times *)

\* lines 146-153: MM/DD/YY, or the text unchanged where strptime raises ValueError
format_short_date(date_str) ==
    LET date_obj == strptime_date(date_str)
    IN  IF date_obj.ok
        THEN TwoDigits(date_obj.m) \o <<"/">> \o TwoDigits(date_obj.d) \o <<"/">>
             \o TwoDigits(date_obj.Y % 100)
        ELSE date_str

DayNames == <<<<"M", "o", "n", "d", "a", "y">>, <<"T", "u", "e", "s", "d", "a", "y">>, <<"W", "e", "d", "n", "e", "s", "d", "a", "y">>, <<"T", "h", "u", "r", "s", "d", "a", "y">>, <<"F", "r", "i", "d", "a", "y">>, <<"S", "a", "t", "u", "r", "d", "a", "y">>, <<"S", "u", "n", "d", "a", "y">>>>

MonthNames == <<<<"J", "a", "n", "u", "a", "r", "y">>, <<"F", "e", "b", "r", "u", "a", "r", "y">>, <<"M", "a", "r", "c", "h">>, <<"A", "p", "r", "i", "l">>, <<"M", "a", "y">>, <<"J", "u", "n", "e">>, <<"J", "u", "l", "y">>, <<"A", "u", "g", "u", "s", "t">>, <<"S", "e", "p", "t", "e", "m", "b", "e", "r">>, <<"O", "c", "t", "o", "b", "e", "r">>, <<"N", "o", "v", "e", "m", "b", "e", "r">>, <<"D", "e", "c", "e", "m", "b", "e", "r">>>>

\* date.weekday(): Monday is 0
weekday(dt) == (toordinal(dt) + 6) % 7

\* lines 157-164: "Tuesday April 22, 2025", or the text unchanged where
\* strptime raises ValueError
format_date_with_day(date_str) ==
    LET date_obj == strptime_date(date_str)
    IN  IF date_obj.ok
        THEN DayNames[weekday(date_obj) + 1] \o <<" ">> \o MonthNames[date_obj.m] \o <<" ">>
             \o TwoDigits(date_obj.d) \o <<",", " ">> \o NatText(date_obj.Y)
        ELSE date_str

NotATime == [ok |-> FALSE, H |-> 0, M |-> 0, S |-> 0]

\* line 533: strptime(time_str, "%H:%M:%S")
strptime_time(s) ==
    LET c1 == FirstIndex(s, 1, {":"}, TRUE)
        c2 == IF c1 = 0 THEN 0 ELSE FirstIndex(s, c1 + 1, {":"}, TRUE)
    IN  IF /\ c2 > 0
           /\ NumberIn(SubSeq(s, 1, c1 - 1), 0, 23)
           /\ NumberIn(SubSeq(s, c1 + 1, c2 - 1), 0, 59)
           /\ NumberIn(SubSeq(s, c2 + 1, Len(s)), 0, 59)
        THEN [ok |-> TRUE,
              H |-> ToNat(SubSeq(s, 1, c1 - 1)),
              M |-> ToNat(SubSeq(s, c1 + 1, c2 - 1)),
              S |-> ToNat(SubSeq(s, c2 + 1, Len(s)))]
        ELSE NotATime

hour12_ZeroAtTwelve(H) == H % 12

\* the hour of the 12-hour clock
hour12(H) == IF H % 12 = 0 THEN 12 ELSE H % 12

\* lines 534 and 751: strftime("%I:%M %p")
strftime_clock(dt) ==
    TwoDigits(hour12(dt.H)) \o <<":">> \o TwoDigits(dt.M) \o <<" ">>
    \o (IF dt.H < 12 THEN <<"A", "M">> ELSE <<"P", "M">>)

\* line 751: strftime("%Y-%m-%d %I:%M %p")
strftime_csv(dt) ==
    NatText(dt.Y) \o <<"-">> \o TwoDigits(dt.m) \o <<"-">> \o TwoDigits(dt.d) \o <<" ">>
    \o strftime_clock(dt)

-----------------------------------------------------------------------------
(* Remote calendar: get_meetings and get_meeting_range *)

\* a Python list and a Python dictionary, told apart as isinstance does
ListValue(items) == [type |-> "list", items |-> items]

DictValue(d) == [type |-> "dict", value |-> d]

ErrorValue(message) == [type |-> "dict", error |-> message]

IsList(v) == v.type = "list"

\* isinstance(v, dict) and "error" in v
IsError(v) == v.type = "dict" /\ "error" \in DOMAIN v

\* lines 53-88, on the response of the remote service: the call raising, or a
\* status code and a decoded body
get_meetings(response) ==
    IF response.raises THEN ErrorValue(<<"Exception: ", response.exception>>)
    ELSE IF response.status_code # 200
         THEN ErrorValue(<<"Failed to retrieve meetings data. Status code: ", response.status_code>>)
    ELSE IF DOMAIN response.json = {} THEN ErrorValue(<<"Empty response">>)
    ELSE IF "Basis" \notin DOMAIN response.json THEN ErrorValue(<<"No 'Basis' field in response">>)
    ELSE IF "Meetings" \notin DOMAIN response.json["Basis"]
         THEN ErrorValue(<<"No 'Meetings' field in Basis">>)
    ELSE LET found == response.json["Basis"]["Meetings"]
         IN  IF IsList(found) THEN found
             ELSE IF found.type = "dict" /\ "Meeting" \in DOMAIN found.value
                  THEN (IF IsList(found.value["Meeting"]) THEN found.value["Meeting"]
                        ELSE ListValue(<<found.value["Meeting"].value>>))
             ELSE ErrorValue(<<"Unexpected structure in Meetings field">>)

InvalidDateFormat == ErrorValue(<<"Invalid date format. Please use MM/DD/YYYY.">>)

DateRangeTooLarge == ErrorValue(<<"Date range too large. Maximum range is 30 days.">>)

RangeTooLarge_Never(start, end) == FALSE

\* line 100
RangeTooLarge(start, end) == days_between(start, end) > 30

\* line 107
InRange(day, end) == toordinal(day) <= toordinal(end)

\* a dictionary in insertion order: the entries as (key, value) pairs
Keys(d) == [i \in 1..Len(d) |-> d[i].key]

HasKey(d, k) == \E i \in 1..Len(d) : d[i].key = k

\* d[k] = v
SetItem(d, k, v) ==
    IF HasKey(d, k) THEN [i \in 1..Len(d) |-> IF d[i].key = k THEN [key |-> k, value |-> v] ELSE d[i]]
    ELSE Append(d, [key |-> k, value |-> v])

-----------------------------------------------------------------------------
(* Broadcast dialect: format_meetings_invintus_csv *)

InvintusHeader == <<"title", "customID", "startDateTime", "description", "encoder",
                    "category", "location", "estRuntime", "liveToBreak">>

GavelAlaska == <<"G", "a", "v", "e", "l", " ", "A", "l", "a", "s", "k", "a">>

IsSelected_HasEncoder(custom_id, encoder_map) ==
    custom_id \in DOMAIN encoder_map /\ Truthy(encoder_map[custom_id])

\* line 823
IsSelected(custom_id, encoder_map) == custom_id \in DOMAIN encoder_map

InvintusRows_CategoryAlwaysDefault(m, encoder_map, category_map, runtime, live_to_break) ==
    LET date_str == Get(m, "MeetingDate", << >>)
        time_str == Get(m, "MeetingTime", << >>)
        dt == strptime(date_str \o <<" ">> \o time_str)
        custom_id == generate_custom_id(m)
    IN  IF should_skip_event(m) = "True" THEN << >>
        ELSE IF ~Truthy(date_str) \/ ~Truthy(time_str) THEN << >>
        ELSE IF ~dt.ok THEN << >>
        ELSE IF ~IsSelected(custom_id, encoder_map) THEN << >>
        ELSE <<[title |-> build_title(m),
                customID |-> custom_id,
                startDateTime |-> strftime(dt),
                description |-> build_description(m, TRUE),
                encoder |-> IF Truthy(encoder_map[custom_id]) THEN encoder_map[custom_id] ELSE << >>,
                category |-> GavelAlaska,
                location |-> Get(m, "Location", << >>),
                estRuntime |-> runtime,
                liveToBreak |-> IF live_to_break THEN "TRUE" ELSE "FALSE"]>>

\* one iteration of the loop (lines 795-851): the row written, or none
InvintusRows(m, encoder_map, category_map, runtime, live_to_break) ==
    LET date_str == Get(m, "MeetingDate", << >>)
        time_str == Get(m, "MeetingTime", << >>)
        dt == strptime(date_str \o <<" ">> \o time_str)
        custom_id == generate_custom_id(m)
    IN  IF should_skip_event(m) = "True" THEN << >>
        ELSE IF ~Truthy(date_str) \/ ~Truthy(time_str) THEN << >>
        ELSE IF ~dt.ok THEN << >>
        ELSE IF ~IsSelected(custom_id, encoder_map) THEN << >>
        ELSE <<[title |-> build_title(m),
                customID |-> custom_id,
                startDateTime |-> strftime(dt),
                description |-> build_description(m, TRUE),
                encoder |-> IF Truthy(encoder_map[custom_id]) THEN encoder_map[custom_id] ELSE << >>,
                category |-> Get(category_map, custom_id, GavelAlaska),
                location |-> Get(m, "Location", << >>),
                estRuntime |-> runtime,
                liveToBreak |-> IF live_to_break THEN "TRUE" ELSE "FALSE"]>>

RECURSIVE InvintusLoop(_, _, _, _, _)
InvintusLoop(ms, encoder_map, category_map, runtime, live_to_break) ==
    IF ms = << >> THEN << >>
    ELSE InvintusRows(Head(ms), encoder_map, category_map, runtime, live_to_break)
         \o InvintusLoop(Tail(ms), encoder_map, category_map, runtime, live_to_break)

\* the rows handed to the csv writer: the header, then the rows of the records
format_meetings_invintus_csv(ms, encoder_map, category_map, runtime, live_to_break) ==
    IF SkipRaises(ms) THEN Raised("AttributeError")
    ELSE [header |-> InvintusHeader,
          rows |-> InvintusLoop(ms, encoder_map, category_map, runtime, live_to_break)]

-----------------------------------------------------------------------------
(* Generic dialect: format_meetings_csv *)

CsvFields == <<"title", "status", "location", "time", "bills", "description">>

\* lines 744-753: the time column
FormattedTime(m) ==
    LET time_str == Get(m, "MeetingTime", << >>)
        date_str == Get(m, "MeetingDate", << >>)
        dt == strptime(date_str \o <<" ">> \o time_str)
    IN  IF Truthy(date_str) /\ Truthy(time_str)
        THEN (IF dt.ok THEN strftime_csv(dt) ELSE date_str \o <<" ">> \o time_str)
        ELSE << >>

\* lines 542 and 757: the bills of the groups, or the given text when there
\* is no group
BillsStr(m, none) ==
    LET bill_details == extract_bills_with_details(m).bill_details
    IN  IF bill_details # << >>
        THEN join(<<",", " ">>, [g \in 1..Len(bill_details) |-> bill_details[g].bill])
        ELSE none

IsSkipped_Never(m) == FALSE

\* lines 423, 431, 734 and 797
IsSkipped(m) == should_skip_event(m) = "True"

\* one iteration of the loop (lines 732-771): the row written, or none
CsvRows(m, include_date) ==
    LET row == [title |-> build_title(m),
                status |-> IF Get(m, "MeetingCanceled", FALSE) = TRUE THEN <<"C", "A", "N", "C", "E", "L", "E", "D">> ELSE <<"A", "c", "t", "i", "v", "e">>,
                location |-> Get(m, "Location", <<"N", "o", " ", "L", "o", "c", "a", "t", "i", "o", "n">>),
                time |-> FormattedTime(m),
                bills |-> BillsStr(m, << >>),
                description |-> build_description(m, TRUE)]
    IN  IF IsSkipped(m) THEN << >>
        ELSE IF include_date THEN <<("date" :> Get(m, "_display_date", << >>)) @@ row>>
        ELSE <<row>>

RECURSIVE CsvLoop(_, _)
CsvLoop(ms, include_date) ==
    IF ms = << >> THEN << >>
    ELSE CsvRows(Head(ms), include_date) \o CsvLoop(Tail(ms), include_date)

\* the rows handed to the csv writer: the header, then the rows of the records
format_meetings_csv(ms, include_date) ==
    IF SkipRaises(ms) THEN Raised("AttributeError")
    ELSE [header |-> IF include_date THEN <<"date">> \o CsvFields ELSE CsvFields,
          rows |-> CsvLoop(ms, include_date)]

-----------------------------------------------------------------------------
(* Meetings page: render_meetings_html *)

\* the code points of the characters of a date text
CharCode(c) == IF c = "/" THEN 47 ELSE IF c = " " THEN 32 ELSE IF IsDigit(c) THEN 48 + DigitValue(c) ELSE 127

\* a < b as Python compares str
RECURSIVE StrLess(_, _)
StrLess(a, b) ==
    IF b = << >> THEN FALSE
    ELSE IF a = << >> THEN TRUE
    ELSE IF Head(a) = Head(b) THEN StrLess(Tail(a), Tail(b))
    ELSE CharCode(Head(a)) < CharCode(Head(b))

\* line 498: sorted(keys), the keys being distinct
RECURSIVE sorted(_)
sorted(keys) ==
    IF keys = << >> THEN << >>
    ELSE LET least == CHOOSE i \in 1..Len(keys) : \A j \in 1..Len(keys) : ~StrLess(keys[j], keys[i])
         IN  <<keys[least]>> \o sorted([i \in 1..(Len(keys) - 1) |->
                                           IF i < least THEN keys[i] ELSE keys[i + 1]])

\* lines 423 and 431: the records that are not skipped
ValidMeetings(ms) == SelectSeq(ms, LAMBDA m : ~IsSkipped(m))

\* line 428: meeting['_display_date'] = date
WithDisplayDate(ms, date) == [i \in 1..Len(ms) |-> ("_display_date" :> date) @@ ms[i]]

\* lines 530-538: the time cell
DisplayTime(m) ==
    LET time_str == Get(m, "MeetingTime", << >>)
    IN  IF Truthy(time_str)
        THEN (IF strptime_time(time_str).ok THEN strftime_clock(strptime_time(time_str))
              ELSE time_str)
        ELSE <<"N", "o", " ", "T", "i", "m", "e">>

\* lines 522-593: the table row of the i-th record of a date, i from 0
PageRow(m, date, i) ==
    [row_id |-> <<"m", "e", "e", "t", "i", "n", "g", "-">> \o replace(date, <<"/">>, << >>) \o <<"-">> \o NatText(i),
     custom_id |-> generate_custom_id(m),
     date |-> format_short_date(date),
     title |-> build_title(m),
     status |-> IF Get(m, "MeetingCanceled", FALSE) = TRUE THEN <<"C", "A", "N", "C", "E", "L", "E", "D">> ELSE <<"A", "c", "t", "i", "v", "e">>,
     location |-> Get(m, "Location", <<"N", "o", " ", "L", "o", "c", "a", "t", "i", "o", "n">>),
     time |-> DisplayTime(m),
     bills |-> BillsStr(m, <<"N", "o", "n", "e">>),
     description |-> build_description(m, FALSE)]

\* lines 498-595: one table per date, the dates in sorted order
PageTable(by_date, date) ==
    LET date_meetings == by_date[CHOOSE i \in 1..Len(by_date) : by_date[i].key = date].value
    IN  [date |-> format_date_with_day(date),
         rows |-> [i \in 1..Len(date_meetings) |-> PageRow(date_meetings[i], date, i - 1)]]

\* lines 417-433: the valid records of each date; a date whose entry is not
\* a list, or has no valid record, is left out
RECURSIVE ValidByDate(_)
ValidByDate(entries) ==
    IF entries = << >> THEN << >>
    ELSE LET date == Head(entries).key
             date_meetings == Head(entries).value
             valid_meetings == IF IsList(date_meetings)
                               THEN WithDisplayDate(ValidMeetings(date_meetings.items), date)
                               ELSE << >>
         IN  (IF valid_meetings # << >> THEN <<[key |-> date, value |-> valid_meetings]>> ELSE << >>)
             \o ValidByDate(Tail(entries))

RECURSIVE SumOfLengths(_)
SumOfLengths(by_date) ==
    IF by_date = << >> THEN 0 ELSE Len(Head(by_date).value) + SumOfLengths(Tail(by_date))

\* the page: its title, the target of "Export All to CSV", the count and the
\* tables; an error value gives the error page
render_meetings_html(found, date_info, is_range) ==
    IF IsError(found) THEN [kind |-> "error", error |-> found.error]
    ELSE
      LET by_date ==
              IF is_range THEN ValidByDate(found.entries)
              ELSE IF ValidMeetings(found.items) # << >>
                   THEN <<[key |-> date_info, value |-> ValidMeetings(found.items)]>>
                   ELSE << >>
          total_meetings == SumOfLengths(by_date)
          dates == sorted(Keys(by_date))
      IN  [kind |-> "page",
           title |-> IF is_range
                     THEN <<"G", "a", "v", "e", "l", " ", "M", "e", "e", "t", "i", "n", "g", " ", "E", "x", "p", "o", "r", "t", "e", "r", " ", "-", " ">> \o format_date_with_day(date_info.start)
                          \o <<" ", "t", "o", " ">> \o format_date_with_day(date_info.end)
                     ELSE <<"G", "a", "v", "e", "l", " ", "M", "e", "e", "t", "i", "n", "g", " ", "E", "x", "p", "o", "r", "t", "e", "r", " ", "-", " ">> \o format_date_with_day(date_info),
           export_all |-> [path |-> IF is_range THEN "export_csv_range" ELSE "export_csv",
                           date |-> IF is_range THEN date_info.start ELSE date_info],
           total_meetings |-> total_meetings,
           form_action |-> IF total_meetings = 0 THEN "none"
                           ELSE IF is_range THEN "export_invintus_range" ELSE "export_invintus",
           tables |-> IF total_meetings = 0 THEN << >>
                      ELSE [t \in 1..Len(dates) |-> PageTable(by_date, dates[t])]]

-----------------------------------------------------------------------------
(* Export handlers: what follows the fetch in each route *)

\* "Error: ..." as the body of the reply
ErrorReply(found) == [kind |-> "text", text |-> <<"Error: ", found.error>>]

\* lines 927-933: the records of the dates whose entry is a list, each with
\* its date
\* the export ends at the first entry that is not a list
RECURSIVE FlattenWithDate_StopAtError(_)
FlattenWithDate_StopAtError(entries) ==
    IF entries = << >> \/ ~IsList(Head(entries).value) THEN << >>
    ELSE WithDisplayDate(Head(entries).value.items, Head(entries).key)
         \o FlattenWithDate_StopAtError(Tail(entries))

RECURSIVE FlattenWithDate(_)
FlattenWithDate(entries) ==
    IF entries = << >> THEN << >>
    ELSE (IF IsList(Head(entries).value)
          THEN WithDisplayDate(Head(entries).value.items, Head(entries).key)
          ELSE << >>)
         \o FlattenWithDate(Tail(entries))

\* lines 1045-1048
RECURSIVE Flatten(_)
Flatten(entries) ==
    IF entries = << >> THEN << >>
    ELSE (IF IsList(Head(entries).value) THEN Head(entries).value.items ELSE << >>)
         \o Flatten(Tail(entries))

\* lines 923-943, after get_meeting_range has returned
export_csv_range(found, start, end) ==
    IF IsError(found) THEN ErrorReply(found)
    ELSE [kind |-> "csv",
          csv |-> format_meetings_csv(FlattenWithDate(found.entries), TRUE),
          filename |-> <<"m", "e", "e", "t", "i", "n", "g", "s", "_">> \o replace(start, <<"/">>, <<"-">>) \o <<"_", "t", "o", "_">>
                       \o replace(end, <<"/">>, <<"-">>) \o <<".", "c", "s", "v">>]

\* the value of a field of the posted form, empty when the field is not posted
FormValue(posted, name) == Get(posted.fields, name, << >>)

SelectedIds(posted) == {posted.selected_meetings[i] : i \in 1..Len(posted.selected_meetings)}

\* lines 969 and 1025: the encoder field is posted and not empty
ChosenEncoder(posted, meeting_id) == Truthy(FormValue(posted, <<"e", "n", "c", "o", "d", "e", "r", "_">> \o meeting_id))

\* lines 963-970 and 1019-1026
FormEncoders(posted) ==
    [meeting_id \in {x \in SelectedIds(posted) : ChosenEncoder(posted, x)} |->
        FormValue(posted, <<"e", "n", "c", "o", "d", "e", "r", "_">> \o meeting_id)]

\* lines 964-975 and 1020-1031
FormCategories(posted) ==
    [meeting_id \in {x \in SelectedIds(posted) : Truthy(FormValue(posted, <<"c", "a", "t", "e", "g", "o", "r", "y", "_">> \o x))} |->
        FormValue(posted, <<"c", "a", "t", "e", "g", "o", "r", "y", "_">> \o meeting_id)]

\* lines 978-983 and 1051-1056
FilterSelected(ms, posted) == SelectSeq(ms, LAMBDA m : generate_custom_id(m) \in SelectedIds(posted))

\* lines 962-999 and 1018-1076: the export of the records that were fetched
InvintusExport(all_meetings, posted) ==
    [kind |-> "csv",
     csv |-> format_meetings_invintus_csv(FilterSelected(all_meetings, posted),
                                          FormEncoders(posted), FormCategories(posted),
                                          Get(posted.fields, <<"r", "u", "n", "t", "i", "m", "e">>, <<"0", "1", ":", "0", "0">>),
                                          <<"l", "i", "v", "e", "_", "t", "o", "_", "b", "r", "e", "a", "k">> \in DOMAIN posted.fields)]

NoMeetingsSelected ==
    [kind |-> "text",
     text |-> <<"Error: No meetings selected. Please go back and select at least one meeting.">>]

\* lines 1040-1076, after get_meeting_range has returned
export_invintus_range(found, posted) ==
    IF IsError(found) THEN ErrorReply(found)
    ELSE InvintusExport(Flatten(found.entries), posted)

\* lines 948-999, on the value get_meetings has returned
export_invintus(found, posted) ==
    IF posted.selected_meetings = << >> THEN NoMeetingsSelected
    ELSE IF IsError(found) THEN ErrorReply(found)
    ELSE InvintusExport(found.items, posted)

-----------------------------------------------------------------------------
(* Inputs *)

HB1 == <<"H", "B", "1">>

SB2 == <<"S", "B", "2">>

PublicTestimony == <<"P", "u", "b", "l", "i", "c", " ", "t", "e", "s", "t", "i", "m", "o", "n", "y">>

Overview == <<"O", "v", "e", "r", "v", "i", "e", "w">>

MeetingCanceledNote == <<"M", "e", "e", "t", "i", "n", "g", " ", "c", "a", "n", "c", "e", "l", "e", "d">>

\* a dictionary holding the given keys, a key being left out when its value is Absent
Absent == <<"Absent">>

Field(k, v) == IF v = Absent THEN << >> ELSE (k :> v)

SeqsUpTo(S, n) == UNION {[1..k -> S] : k \in 0..n}

BillRoots == {Absent, << >>, HB1, SB2}

Highlights == {Absent, HB1, PublicTestimony, Overview, MeetingCanceledNote}

Slices == {Field("BillRoot", b) @@ Field("SliceHighliteText", h) : b \in BillRoots, h \in Highlights}

Chambers == {Absent, None, <<"S">>, <<"H">>, <<"J">>}

SponsorTypes == {Absent, StandingCommittee, SpecialCommittee, FinanceSubCommittee,
                 <<"J", "o", "i", "n", "t", " ", "C", "o", "m", "m", "i", "t", "t", "e", "e">>}

FinanceTitle == <<"f", "i", "n", "a", "n", "c", "e">>

FishAndGameTitle == <<"f", "i", "s", "h", " ", "&", " ", "g", "a", "m", "e">>

RulesTitle == <<"R", "U", "L", "E", "S">>

Titles == {Absent, None, << >>, FinanceTitle, FishAndGameTitle, RulesTitle}

Sponsors == {Absent, <<"F", "I", "N">>}

IsoDate == <<"2", "0", "2", "5", "-", "0", "4", "-", "2", "2">>

CompactDate == <<"2", "0", "2", "5", "0", "4", "2", "2">>

ClockTime == <<"1", "0", ":", "0", "0", ":", "0", "0">>

CompactTime == <<"1", "0", "0", "0", "0", "0">>

Dates == {Absent, None, << >>, IsoDate, CompactDate}

Times == {Absent, << >>, ClockTime, CompactTime}

NoMeetingScheduledNote == <<" ", " ", "N", "o", " ", "M", "e", "e", "t", "i", "n", "g", " ", "S", "c", "h", "e", "d", "u", "l", "e", "d", " ">>

NoMeetingScheduledSentence == no_meeting_scheduled \o <<".">>

SkipHighlights == {Absent, << >>, no_meeting_scheduled, NoMeetingScheduledNote,
                   NoMeetingScheduledSentence, Overview}

SkipSlices == {Field("SliceHighliteText", h) : h \in SkipHighlights}

Teleconference == <<"T", "e", "l", "e", "c", "o", "n", "f">>

DescSlices ==
    {Field("SliceHighliteText", h) : h \in {Overview, Teleconference, StreamedLive,
                                            StreamedLive \o StreamedLive}}
    \cup {("BillRoot" :> HB1) @@ ("SliceHighliteText" :> PublicTestimony)}

ImpossibleDate == <<"2", "0", "2", "5", "-", "0", "2", "-", "3", "0">>

UnpaddedDate == <<"2", "0", "2", "5", "-", "4", "-", "2", "2">>

FIN == <<"F", "I", "N">>

ExportDates == {Absent, IsoDate, ImpossibleDate, UnpaddedDate}

ExportTimes == {<< >>, ClockTime}

ExportSliceLists == {<< >>, <<("SliceHighliteText" :> NoMeetingScheduledNote)>>}

ExportMeetings ==
    {("Chamber" :> c) @@ ("MeetingSponsor" :> FIN) @@ Field("MeetingDate", dt)
     @@ ("MeetingTime" :> tm) @@ ("MeetingSlices" :> sl) :
        c \in {<<"S">>, <<"H">>}, dt \in ExportDates, tm \in ExportTimes, sl \in ExportSliceLists}

SenateId == <<"S", "-", "F", "I", "N", "2", "0", "2", "5", "0", "4", "2", "2", "1", "0", "0", "0", "0", "0">>

HouseId == <<"H", "-", "F", "I", "N", "2", "0", "2", "5", "4", "2", "2", "1", "0", "0", "0", "0", "0">>

Encoder01 == <<"h", "m", "4", "m", "e", "v", "e", "t">>

EncoderMaps == {<< >>, (SenateId :> Encoder01), (SenateId :> << >>) @@ (HouseId :> Encoder01)}

SenateFinanceLabel == GavelAlaska \o <<",", " ">> \o Senate

CategoryMaps == {<< >>, (SenateId :> SenateFinanceLabel)}

Runtimes == {<<"0", "1", ":", "0", "0">>}

\* no request for a range and no posted form is in progress
NoRequest ==
    /\ start_date = << >>
    /\ end_date = << >>
    /\ current = None
    /\ meetings_by_date = << >>
    /\ fetched = << >>
    /\ form = << >>

-----------------------------------------------------------------------------
(* Aggregation of the slices of one record *)

InitSlices ==
    /\ meeting \in {("MeetingSlices" :> sl) : sl \in SeqsUpTo(Slices, MaxSlices)}
    /\ meetings = << >>
    /\ encoders = << >>
    /\ categories = << >>
    /\ op = "start"
    /\ result = << >>
    /\ NoRequest

ExtractBills ==
    /\ op = "start"
    /\ op' = "extract_bills_with_details"
    /\ result' = extract_bills_with_details(meeting)
    /\ UNCHANGED <<meeting, meetings, encoders, categories, requestVars>>

NextSlices == ExtractBills

SpecSlices == InitSlices /\ [][NextSlices]_vars

-----------------------------------------------------------------------------
(* Properties of extract_bills_with_details *)

Extracted == op = "extract_bills_with_details"

Sl == Get(meeting, "MeetingSlices", << >>)

BillOf(i) == SliceBillRoot(Sl[i])

HlOf(i) == SliceHighlight(Sl[i])

BillLess(i) == ~Truthy(BillOf(i))

Range(seq) == {seq[k] : k \in 1..Len(seq)}

AllDetails == UNION {Range(result.bill_details[g].details) : g \in 1..Len(result.bill_details)}

GroupBills == {result.bill_details[g].bill : g \in 1..Len(result.bill_details)}

\* the text holds MEETING CANCELED in some letter case
CancelText(h) ==
    \E a \in 1..Len(h) :
        /\ a + Len(MEETING_CANCELED) - 1 <= Len(h)
        /\ \A k \in 1..Len(MEETING_CANCELED) : upper_char(h[a + k - 1]) = MEETING_CANCELED[k]

\* a highlight that can be reported: non-empty and not a cancellation marker
Reportable(h) == Truthy(h) /\ ~CancelText(h)

\* a slice that gives its bill cursor no detail
Unusable(i) == ~Reportable(HlOf(i)) \/ (~BillLess(i) /\ BillOf(i) = HlOf(i))

\* the bill of the last bill-bearing slice at or before slice i
OwnerOf(i) ==
    LET js == {j \in 1..i : ~BillLess(j)}
    IN  IF js = {} THEN NoBill ELSE BillOf(CHOOSE j \in js : \A k \in js : k <= j)

\* C1 as stated: every detail of a bill group is the highlight of a slice
\* whose BillRoot is the bill of the group.
C1_DetailsFromSlicesOfTheBill ==
    Extracted =>
        \A g \in 1..Len(result.bill_details) :
            \A d \in Range(result.bill_details[g].details) :
                \E i \in 1..Len(Sl) : BillOf(i) = result.bill_details[g].bill /\ HlOf(i) = d

\* C1 amended: every detail of a bill group is the highlight of a slice that
\* bears the bill of the group, or of a bill-less slice that follows a slice
\* of that bill with no slice of another bill in between.
C1_DetailsFromRunOfTheBill ==
    Extracted =>
        \A g \in 1..Len(result.bill_details) :
            \A d \in Range(result.bill_details[g].details) :
                \E i \in 1..Len(Sl) :
                    /\ HlOf(i) = d
                    /\ \/ BillOf(i) = result.bill_details[g].bill
                       \/ /\ BillLess(i)
                          /\ \E j \in 1..(i - 1) :
                                /\ BillOf(j) = result.bill_details[g].bill
                                /\ \A k \in (j + 1)..(i - 1) : BillLess(k)

C1_Witness ==
    /\ Extracted
    /\ \E g \in 1..Len(result.bill_details) :
          /\ Len(result.bill_details[g].details) >= 2
          /\ \E i \in 1..Len(Sl) : BillLess(i) /\ HlOf(i) \in Range(result.bill_details[g].details)
          /\ \E i \in 1..Len(Sl) : ~BillLess(i) /\ HlOf(i) \in Range(result.bill_details[g].details)

ExampleSlices ==
    <<("BillRoot" :> HB1) @@ ("SliceHighliteText" :> HB1),
      ("BillRoot" :> HB1) @@ ("SliceHighliteText" :> PublicTestimony),
      ("SliceHighliteText" :> Overview)>>

\* C2 as stated: the example yields the group {HB1, [Public testimony]} and
\* the general item Overview; a bill-less slice with a reportable highlight
\* that is the highlight of no bill-bearing slice is a general item and is in
\* no bill group.
C2_BillLessSliceIsGeneral ==
    Extracted =>
        /\ Sl = ExampleSlices =>
              result = [bill_details |-> <<[bill |-> HB1, details |-> <<PublicTestimony>>]>>,
                        general_items |-> <<Overview>>]
        /\ \A i \in 1..Len(Sl) :
              (/\ BillLess(i)
               /\ Reportable(HlOf(i))
               /\ \A j \in 1..Len(Sl) : ~BillLess(j) => HlOf(j) # HlOf(i))
              => HlOf(i) \in Range(result.general_items) /\ HlOf(i) \notin AllDetails

\* C2 amended: the example yields the single group {HB1, [Public testimony,
\* Overview]} and no general item; a bill-less slice with a reportable
\* highlight that follows a bill-bearing slice is a detail of a bill group
\* and not a general item, and one that no bill-bearing slice precedes is a
\* general item unless its text is a detail of a bill group.
C2_BillLessSliceFollowsCursor ==
    Extracted =>
        /\ Sl = ExampleSlices =>
              result = [bill_details |-> <<[bill |-> HB1,
                                            details |-> <<PublicTestimony, Overview>>]>>,
                        general_items |-> << >>]
        /\ \A i \in 1..Len(Sl) :
              (BillLess(i) /\ Reportable(HlOf(i))) =>
                  IF OwnerOf(i) # NoBill
                  THEN HlOf(i) \in AllDetails /\ HlOf(i) \notin Range(result.general_items)
                  ELSE HlOf(i) \in Range(result.general_items) \/ HlOf(i) \in AllDetails

C2_Witness == Extracted /\ Sl = ExampleSlices

\* C3: no detail of a bill group is also a general item.
C3_DetailsAndGeneralDisjoint ==
    Extracted => AllDetails \cap Range(result.general_items) = {}

C3_Witness ==
    /\ Extracted
    /\ result.general_items # << >>
    /\ \E i \in 1..Len(Sl) :
          BillLess(i) /\ OwnerOf(i) = NoBill /\ Reportable(HlOf(i)) /\ HlOf(i) \in AllDetails

InputBills == {BillOf(i) : i \in {j \in 1..Len(Sl) : ~BillLess(j)}}

\* C4 as stated: a bill all of whose slices are unusable has no bill group,
\* and no general item comes from a bill-bearing slice, whatever precedes or
\* follows.
C4_BillWithoutHighlightDropped ==
    Extracted =>
        /\ \A b \in InputBills :
              (\A i \in 1..Len(Sl) : BillOf(i) = b => Unusable(i)) => b \notin GroupBills
        /\ \A x \in Range(result.general_items) : \E i \in 1..Len(Sl) : BillLess(i) /\ HlOf(i) = x

\* C4 amended: a bill has no bill group when all of its slices and all the
\* bill-less slices that follow them before the next bill-bearing slice are
\* unusable; no general item comes from a bill-bearing slice.
C4_BillWithoutDetailDropped ==
    Extracted =>
        /\ \A b \in InputBills :
              (\A i \in 1..Len(Sl) : OwnerOf(i) = b => Unusable(i)) => b \notin GroupBills
        /\ \A x \in Range(result.general_items) : \E i \in 1..Len(Sl) : BillLess(i) /\ HlOf(i) = x

C4_Witness ==
    /\ Extracted
    /\ result.bill_details # << >>
    /\ \E i \in 2..(Len(Sl) - 1) :
          /\ ~BillLess(i)
          /\ BillOf(i) \notin GroupBills
          /\ \A j \in 1..Len(Sl) : OwnerOf(j) = BillOf(i) => Unusable(j)

-----------------------------------------------------------------------------
(* Title and identifier of one record *)

InitFields ==
    /\ meeting \in {Field("Chamber", c) @@ Field("SponsorType", st) @@ Field("MeetingTitle", t)
                    @@ Field("MeetingSponsor", sp) @@ Field("MeetingDate", dt)
                    @@ Field("MeetingTime", tm) :
                       c \in Chambers, st \in SponsorTypes, t \in Titles,
                       sp \in Sponsors, dt \in Dates, tm \in Times}
    /\ meetings = << >>
    /\ encoders = << >>
    /\ categories = << >>
    /\ op = "start"
    /\ result = << >>
    /\ NoRequest

BuildTitle ==
    /\ op = "start"
    /\ op' = "build_title"
    /\ result' = build_title(meeting)
    /\ UNCHANGED <<meeting, meetings, encoders, categories, requestVars>>

GenerateCustomId ==
    /\ op = "start"
    /\ op' = "generate_custom_id"
    /\ result' = generate_custom_id(meeting)
    /\ UNCHANGED <<meeting, meetings, encoders, categories, requestVars>>

NextFields == BuildTitle \/ GenerateCustomId

SpecFields == InitFields /\ [][NextFields]_vars

\* the text s without the character c
Without(s, c) == SelectSeq(s, LAMBDA x : x # c)

Present(k) == k \in DOMAIN meeting /\ Truthy(meeting[k])

\* the text of field k in an identifier: nothing when absent, None when null
CodeOf(k) ==
    IF k \notin DOMAIN meeting THEN << >>
    ELSE IF meeting[k] = None THEN <<"N", "o", "n", "e">>
    ELSE meeting[k]

\* C5 as stated: the identifier is "unknown" when date or time is absent or
\* empty, and otherwise chamber, sponsor, date without '-' and time without
\* ':' put together with no character between two components.
C5_IdHasNoDelimiter ==
    op = "generate_custom_id" =>
        result = IF Present("MeetingDate") /\ Present("MeetingTime")
                 THEN CodeOf("Chamber") \o CodeOf("MeetingSponsor")
                      \o Without(meeting["MeetingDate"], "-") \o Without(meeting["MeetingTime"], ":")
                 ELSE unknown

\* C5 amended: the identifier is "unknown" when date or time is absent or
\* empty, and otherwise chamber, one '-', sponsor, date without '-' and time
\* without ':' with no other character between two components.
C5_IdHasHyphenAfterChamber ==
    op = "generate_custom_id" =>
        result = IF Present("MeetingDate") /\ Present("MeetingTime")
                 THEN CodeOf("Chamber") \o <<"-">> \o CodeOf("MeetingSponsor")
                      \o Without(meeting["MeetingDate"], "-") \o Without(meeting["MeetingTime"], ":")
                 ELSE unknown

C5_Witness ==
    /\ op = "generate_custom_id"
    /\ result # unknown
    /\ "Chamber" \in DOMAIN meeting /\ "MeetingSponsor" \in DOMAIN meeting
    /\ meeting["MeetingDate"] # Without(meeting["MeetingDate"], "-")
    /\ meeting["MeetingTime"] # Without(meeting["MeetingTime"], ":")

ChamberWord ==
    IF "Chamber" \notin DOMAIN meeting THEN << >>
    ELSE IF meeting["Chamber"] = <<"S">> THEN Senate
    ELSE IF meeting["Chamber"] = <<"H">> THEN House
    ELSE << >>

HasSponsorType(t) == "SponsorType" \in DOMAIN meeting /\ meeting["SponsorType"] = t

HasTitle(t) == "MeetingTitle" \in DOMAIN meeting /\ meeting["MeetingTitle"] = t

\* the title-cased form of the titles of the model
TitleCased(t) ==
    IF t = FinanceTitle THEN <<"F", "i", "n", "a", "n", "c", "e">>
    ELSE IF t = FishAndGameTitle THEN <<"F", "i", "s", "h", " ", "&", " ", "G", "a", "m", "e">>
    ELSE IF t = RulesTitle THEN <<"R", "u", "l", "e", "s">>
    ELSE t

\* C10: build_title gives the empty text for an empty title, the chamber
\* form of the three recognised sponsor types when the chamber is S or H,
\* and the title-cased raw title in every other case; S, Standing Committee
\* and "finance" give "Senate Finance Committee".
C10_BuildTitle ==
    op = "build_title" =>
        /\ result =
             IF ~Present("MeetingTitle") THEN << >>
             ELSE IF ChamberWord # << >> /\ HasSponsorType(StandingCommittee)
                  THEN ChamberWord \o <<" ">> \o TitleCased(meeting["MeetingTitle"])
                       \o <<" ", "C", "o", "m", "m", "i", "t", "t", "e", "e">>
             ELSE IF ChamberWord # << >> /\ HasSponsorType(SpecialCommittee)
                  THEN ChamberWord \o <<" ">> \o TitleCased(meeting["MeetingTitle"])
                       \o <<" ", "S", "p", "e", "c", "i", "a", "l", " ", "C", "o", "m", "m", "i", "t", "t", "e", "e">>
             ELSE IF ChamberWord # << >> /\ HasSponsorType(FinanceSubCommittee)
                  THEN ChamberWord \o <<" ", "F", "i", "n", "a", "n", "c", "e", ":", " ">>
                       \o TitleCased(meeting["MeetingTitle"])
                       \o <<" ", "S", "u", "b", "c", "o", "m", "m", "i", "t", "t", "e", "e">>
             ELSE TitleCased(meeting["MeetingTitle"])
        /\ ("Chamber" \in DOMAIN meeting /\ meeting["Chamber"] = <<"S">>
                /\ HasSponsorType(StandingCommittee) /\ HasTitle(FinanceTitle))
           => result = <<"S", "e", "n", "a", "t", "e", " ", "F", "i", "n", "a", "n", "c", "e", " ",
                         "C", "o", "m", "m", "i", "t", "t", "e", "e">>

C10_Witness ==
    /\ op = "build_title"
    /\ "Chamber" \in DOMAIN meeting /\ meeting["Chamber"] = <<"H">>
    /\ HasSponsorType(FinanceSubCommittee)
    /\ HasTitle(FishAndGameTitle)

-----------------------------------------------------------------------------
(* Placeholder filter of one record; the highlights are texts or absent *)

InitSkip ==
    /\ meeting \in {("MeetingSlices" :> sl) : sl \in SeqsUpTo(SkipSlices, MaxSlices)}
    /\ meetings = << >>
    /\ encoders = << >>
    /\ categories = << >>
    /\ op = "start"
    /\ result = << >>
    /\ NoRequest

ShouldSkipEvent ==
    /\ op = "start"
    /\ op' = "should_skip_event"
    /\ result' = should_skip_event(meeting)
    /\ UNCHANGED <<meeting, meetings, encoders, categories, requestVars>>

NextSkip == ShouldSkipEvent

SpecSkip == InitSkip /\ [][NextSkip]_vars

\* h is "no meeting scheduled" in some letter case between leading and
\* trailing blanks
PlaceholderText(h) ==
    \E a \in 1..Len(h) :
        LET b == a + Len(no_meeting_scheduled) - 1
        IN  /\ b <= Len(h)
            /\ \A k \in 1..(a - 1) : h[k] = " "
            /\ \A k \in (b + 1)..Len(h) : h[k] = " "
            /\ \A k \in 1..Len(no_meeting_scheduled) :
                  h[a + k - 1] \in {no_meeting_scheduled[k], upper_char(no_meeting_scheduled[k])}

HasPlaceholder == \E i \in 1..Len(Sl) : PlaceholderText(HlOf(i))

HasRealContent == \E i \in 1..Len(Sl) : HlOf(i) # << >> /\ ~PlaceholderText(HlOf(i))

\* C7: for a record whose highlights are texts or absent, should_skip_event
\* is true exactly when some slice's highlight, trimmed and lower-cased, is
\* "no meeting scheduled"; a record with no slices is not skipped.
C7_SkipIffPlaceholder ==
    op = "should_skip_event" =>
        /\ result = IF HasPlaceholder THEN "True" ELSE "False"
        /\ Sl = << >> => result = "False"

C7_Witness ==
    /\ op = "should_skip_event"
    /\ result = "True"
    /\ Len(Sl) >= 2
    /\ \A i \in 1..Len(Sl) : HlOf(i) # no_meeting_scheduled

\* C8 as stated: true when the only slice is the placeholder, false when any
\* slice carries real content, also next to a placeholder slice.
C8_RealContentNeverSkipped ==
    op = "should_skip_event" =>
        /\ (Len(Sl) = 1 /\ HasPlaceholder) => result = "True"
        /\ HasRealContent => result = "False"

\* C8 amended: true when the only slice is the placeholder and when a
\* placeholder slice stands next to real-content slices; false when slices
\* carry real content and none is the placeholder.
C8_PlaceholderWinsOverRealContent ==
    op = "should_skip_event" =>
        /\ (Len(Sl) = 1 /\ HasPlaceholder) => result = "True"
        /\ (HasRealContent /\ HasPlaceholder) => result = "True"
        /\ (HasRealContent /\ ~HasPlaceholder) => result = "False"

C8_Witness ==
    /\ op = "should_skip_event"
    /\ HasRealContent
    /\ HasPlaceholder
    /\ ~PlaceholderText(HlOf(1))

-----------------------------------------------------------------------------
(* Description of one record, for display and for CSV *)

InitDescription ==
    /\ meeting \in {("MeetingSlices" :> sl) : sl \in SeqsUpTo(DescSlices, MaxDescSlices)}
                  \cup {("MeetingCanceled" :> TRUE) @@ ("MeetingSlices" :> sl) :
                           sl \in SeqsUpTo(DescSlices, MaxDescSlices)}
    /\ meetings = << >>
    /\ encoders = << >>
    /\ categories = << >>
    /\ op = "start"
    /\ result = << >>
    /\ NoRequest

BuildDescription ==
    /\ op = "start"
    /\ op' = "build_description"
    /\ result' = build_description(meeting, FALSE)
    /\ UNCHANGED <<meeting, meetings, encoders, categories, requestVars>>

BuildDescriptionForCsv ==
    /\ op = "start"
    /\ op' = "build_description for_csv"
    /\ result' = build_description(meeting, TRUE)
    /\ UNCHANGED <<meeting, meetings, encoders, categories, requestVars>>

NextDescription == BuildDescription \/ BuildDescriptionForCsv

SpecDescription == InitDescription /\ [][NextDescription]_vars

\* C9: the strip of streaming annotations is idempotent: applied to a
\* description it has already produced, it returns that description unchanged.
C9_StripIdempotent ==
    op = "build_description for_csv" => StripStreaming(result) = result

-----------------------------------------------------------------------------
(* Broadcast export of a list of records under a selection *)

InitInvintus ==
    /\ meeting = << >>
    /\ meetings \in SeqsUpTo(ExportMeetings, MaxMeetings)
    /\ encoders \in EncoderMaps
    /\ categories \in CategoryMaps
    /\ op = "start"
    /\ result = << >>
    /\ NoRequest

FormatInvintusCsv ==
    /\ op = "start"
    /\ \E runtime \in Runtimes, live_to_break \in BOOLEAN :
          result' = format_meetings_invintus_csv(meetings, encoders, categories,
                                                 runtime, live_to_break)
    /\ op' = "format_meetings_invintus_csv"
    /\ UNCHANGED <<meeting, meetings, encoders, categories, requestVars>>

NextInvintus == FormatInvintusCsv

SpecInvintus == InitInvintus /\ [][NextInvintus]_vars

\* the date and time texts of the model that parse as YYYY-MM-DD HH:MM:SS
\* together, with the canonical form of each
CanonicalStamp(m) ==
    IF "MeetingDate" \notin DOMAIN m \/ m["MeetingTime"] # ClockTime THEN << >>
    ELSE IF m["MeetingDate"] \in {IsoDate, UnpaddedDate} THEN IsoDate \o <<" ">> \o ClockTime
    ELSE << >>

IsPlaceholderRecord(m) ==
    \E i \in 1..Len(m["MeetingSlices"]) : PlaceholderText(SliceHighlight(m["MeetingSlices"][i]))

\* the identifier of a record of the model that has a date and a time
IdentifierOf(m) ==
    m["Chamber"] \o <<"-">> \o m["MeetingSponsor"] \o Without(m["MeetingDate"], "-")
    \o Without(m["MeetingTime"], ":")

\* the three conditions of inclusion in the broadcast export
Exported(m) ==
    /\ ~IsPlaceholderRecord(m)
    /\ CanonicalStamp(m) # << >>
    /\ IdentifierOf(m) \in DOMAIN encoders

ExportedIndexes == {i \in 1..Len(meetings) : Exported(meetings[i])}

\* the k-th smallest element of a set of numbers
RECURSIVE Nth(_, _)
Nth(S, k) ==
    LET least == CHOOSE x \in S : \A y \in S : x <= y
    IN  IF k = 1 THEN least ELSE Nth(S \ {least}, k - 1)

\* C6: the export holds one row for each record that is not a placeholder,
\* has a date and a time that parse together and has its identifier among
\* the keys of the encoder mapping, in the order of the records, and no row
\* for any other record.
C6_RowIffIncluded ==
    op = "format_meetings_invintus_csv" =>
        /\ Len(result.rows) = Cardinality(ExportedIndexes)
        /\ \A k \in 1..Len(result.rows) :
              /\ result.rows[k].customID = IdentifierOf(meetings[Nth(ExportedIndexes, k)])
              /\ result.rows[k].startDateTime = CanonicalStamp(meetings[Nth(ExportedIndexes, k)])
        /\ \A i \in 1..Len(meetings) :
              generate_custom_id(meetings[i]) \notin DOMAIN encoders =>
                  \A k \in 1..Len(result.rows) :
                      result.rows[k].customID # generate_custom_id(meetings[i])

C6_Witness ==
    /\ op = "format_meetings_invintus_csv"
    /\ Len(meetings) = 2
    /\ Len(result.rows) = 1
    /\ \E i \in 1..2 : /\ ~IsPlaceholderRecord(meetings[i])
                       /\ CanonicalStamp(meetings[i]) # << >>
                       /\ IdentifierOf(meetings[i]) \notin DOMAIN encoders


\* C15: in every row of the broadcast export the encoder is the value the
\* identifier of the record is mapped to, the empty text when that value is
\* blank; the category is the value the categories mapping holds for the
\* identifier, "Gavel Alaska" when it holds none; estRuntime is the runtime
\* of the call in every row and liveToBreak is the same "TRUE" or "FALSE" in
\* every row.
C15_EncoderCategoryAndSharedColumns ==
    op = "format_meetings_invintus_csv" =>
        \A k \in 1..Len(result.rows) :
            LET id == IdentifierOf(meetings[Nth(ExportedIndexes, k)])
            IN  /\ result.rows[k].customID = id
                /\ result.rows[k].encoder = encoders[id]
                /\ result.rows[k].category =
                      IF id \in DOMAIN categories THEN categories[id]
                      ELSE <<"G", "a", "v", "e", "l", " ", "A", "l", "a", "s", "k", "a">>
                /\ result.rows[k].estRuntime \in Runtimes
                /\ result.rows[k].estRuntime = result.rows[1].estRuntime
                /\ result.rows[k].liveToBreak \in {"TRUE", "FALSE"}
                /\ result.rows[k].liveToBreak = result.rows[1].liveToBreak

C15_Witness ==
    /\ op = "format_meetings_invintus_csv"
    /\ Len(result.rows) = 2
    /\ result.rows[1].encoder = << >>
    /\ result.rows[1].category = SenateFinanceLabel
    /\ result.rows[2].encoder = Encoder01
    /\ result.rows[2].category = GavelAlaska
    /\ result.rows[2].liveToBreak = "FALSE"

-----------------------------------------------------------------------------
(* A request for a range of dates: get_meeting_range, one fetch per step *)

Date20250422 == <<"0", "4", "/", "2", "2", "/", "2", "0", "2", "5">>

Date20250522 == <<"0", "5", "/", "2", "2", "/", "2", "0", "2", "5">>

Date20250523 == <<"0", "5", "/", "2", "3", "/", "2", "0", "2", "5">>

Date20240228 == <<"0", "2", "/", "2", "8", "/", "2", "0", "2", "4">>

Date20240301 == <<"0", "3", "/", "0", "1", "/", "2", "0", "2", "4">>

Date20241231 == <<"1", "2", "/", "3", "1", "/", "2", "0", "2", "4">>

Date20250101Unpadded == <<"1", "/", "1", "/", "2", "0", "2", "5">>

Date99991230 == <<"1", "2", "/", "3", "0", "/", "9", "9", "9", "9">>

Date99991231 == <<"1", "2", "/", "3", "1", "/", "9", "9", "9", "9">>

DateShortYear == <<"0", "4", "/", "2", "2", "/", "2", "5">>

DateImpossible == <<"0", "2", "/", "3", "0", "/", "2", "0", "2", "5">>

RangeDates ==
    {Date20250422, Date20250522, Date20250523, Date20240228, Date20240301, Date20241231,
     Date20250101Unpadded, Date99991230, Date99991231,
     << >>, IsoDate, DateShortYear, DateImpossible}

FinanceMeeting ==
    ("Chamber" :> <<"S">>) @@ ("MeetingSponsor" :> FIN) @@ ("MeetingTitle" :> FinanceTitle)
    @@ ("SponsorType" :> StandingCommittee) @@ ("MeetingDate" :> IsoDate)
    @@ ("MeetingTime" :> ClockTime)
    @@ ("MeetingSlices" :> <<("BillRoot" :> HB1) @@ ("SliceHighliteText" :> PublicTestimony)>>)

PlaceholderMeeting ==
    ("Chamber" :> <<"H">>) @@ ("MeetingSponsor" :> FIN) @@ ("MeetingTitle" :> RulesTitle)
    @@ ("MeetingDate" :> IsoDate) @@ ("MeetingTime" :> ClockTime)
    @@ ("MeetingSlices" :> <<("SliceHighliteText" :> NoMeetingScheduledNote)>>)

Answer(json) == [raises |-> FALSE, exception |-> "", status_code |-> 200, json |-> json]

\* the day has no meetings
QuietDay == Answer(("Basis" :> ("Meetings" :> ListValue(<< >>))))

\* what the remote service can answer on a day
Responses ==
    {QuietDay,
     [raises |-> TRUE, exception |-> "Connection refused", status_code |-> 0, json |-> << >>],
     [raises |-> FALSE, exception |-> "", status_code |-> 503, json |-> << >>],
     Answer(("Message" :> "maintenance")),
     Answer(("Basis" :> ("Meetings" :> ListValue(<<PlaceholderMeeting, FinanceMeeting>>)))),
     Answer(("Basis" :> ("Meetings" :> DictValue(("Meeting" :> DictValue(FinanceMeeting))))))}

InitRange ==
    /\ meeting = << >>
    /\ meetings = << >>
    /\ encoders = << >>
    /\ categories = << >>
    /\ op = "start"
    /\ result = << >>
    /\ start_date \in RangeDates
    /\ end_date \in RangeDates
    /\ current = None
    /\ meetings_by_date = << >>
    /\ fetched = << >>
    /\ form = << >>

\* lines 93-106: the dates are parsed and the span is checked
ParseRange ==
    /\ op = "start"
    /\ LET start == strptime_date(start_date)
           end == strptime_date(end_date)
       IN  IF ~start.ok \/ ~end.ok
           THEN /\ result' = InvalidDateFormat
                /\ op' = "returned"
                /\ UNCHANGED current
           ELSE IF RangeTooLarge(start, end)
           THEN /\ result' = DateRangeTooLarge
                /\ op' = "returned"
                /\ UNCHANGED current
           ELSE /\ current' = start
                /\ op' = "fetching"
                /\ UNCHANGED result
    /\ UNCHANGED <<meeting, meetings, encoders, categories, start_date, end_date,
                   meetings_by_date, fetched, form>>

\* lines 107-111: one turn of the loop, the day is fetched and stored and the
\* cursor moves on; past 12/31/9999 the addition raises OverflowError
FetchDay ==
    /\ op = "fetching"
    /\ InRange(current, strptime_date(end_date))
    /\ \E response \in (IF Len(fetched) < MaxWatchedDays THEN Responses ELSE {QuietDay}) :
          /\ fetched' = Append(fetched, [date |-> strftime_date(current), response |-> response])
          /\ meetings_by_date' = SetItem(meetings_by_date, strftime_date(current),
                                         get_meetings(response))
    /\ IF next_day(current).ok
       THEN current' = next_day(current) /\ op' = "fetching"
       ELSE current' = current /\ op' = "OverflowError"
    /\ UNCHANGED <<meeting, meetings, encoders, categories, result, start_date, end_date, form>>

\* lines 107 and 113: the cursor is past the end, the dictionary is returned
ReturnRange ==
    /\ op = "fetching"
    /\ ~InRange(current, strptime_date(end_date))
    /\ result' = [type |-> "dict", entries |-> meetings_by_date]
    /\ op' = "returned"
    /\ UNCHANGED <<meeting, meetings, encoders, categories, start_date, end_date, current,
                   meetings_by_date, fetched, form>>

PlaceholderId == <<"H", "-", "F", "I", "N", "2", "0", "2", "5", "0", "4", "2", "2", "1", "0", "0", "0", "0", "0">>

SenateFinanceCategory == GavelAlaska \o <<",", " ", "S", "e", "n", "a", "t", "e", " ", "F", "i", "n", "a", "n", "c", "e", " ", "C", "o", "m", "m", "i", "t", "t", "e", "e">>

\* the forms a browser, or any client, can post for the records of the model
RangeForms ==
    {[selected_meetings |-> sel,
      fields |-> (<<"r", "u", "n", "t", "i", "m", "e">> :> <<"0", "1", ":", "0", "0">>) @@ ((<<"e", "n", "c", "o", "d", "e", "r", "_">> \o SenateId) :> enc) @@ Field(<<"c", "a", "t", "e", "g", "o", "r", "y", "_">> \o SenateId, cat)
                 @@ Field(<<"l", "i", "v", "e", "_", "t", "o", "_", "b", "r", "e", "a", "k">>, ltb)] :
        sel \in {<<SenateId>>, <<PlaceholderId, SenateId>>},
        enc \in {<< >>, Encoder01},
        cat \in {Absent, SenateFinanceCategory},
        ltb \in {Absent, <<"T", "R", "U", "E">>}}

\* lines 881-883: the page of the range
ViewRange ==
    /\ op = "returned"
    /\ op' = "view_range"
    /\ result' = render_meetings_html(result, [start |-> start_date, end |-> end_date], TRUE)
    /\ UNCHANGED <<meeting, meetings, encoders, categories, start_date, end_date, current,
                   meetings_by_date, fetched, form>>

\* lines 923-943; the route fetches a range when the two dates differ
ExportCsvRange ==
    /\ op = "returned"
    /\ start_date # end_date
    /\ op' = "export_csv_range"
    /\ result' = export_csv_range(result, start_date, end_date)
    /\ UNCHANGED <<meeting, meetings, encoders, categories, start_date, end_date, current,
                   meetings_by_date, fetched, form>>

\* lines 1040-1076; the route fetches a range when the two dates differ and
\* a meeting is selected
ExportInvintusRange ==
    /\ op = "returned"
    /\ start_date # end_date
    /\ \E posted \in RangeForms :
          /\ form' = posted
          /\ result' = export_invintus_range(result, posted)
    /\ op' = "export_invintus_range"
    /\ UNCHANGED <<meeting, meetings, encoders, categories, start_date, end_date, current,
                   meetings_by_date, fetched>>

NextRange ==
    ParseRange \/ FetchDay \/ ReturnRange \/ ViewRange \/ ExportCsvRange \/ ExportInvintusRange

SpecRange == InitRange /\ [][NextRange]_vars


\* the calendar days the dates of the model fall on, in calendar order, each
\* with its day number and its MM/DD/YYYY text
DayTable ==
    <<
      [number |-> 738944, text |-> <<"0", "2", "/", "2", "8", "/", "2", "0", "2", "4">>],
      [number |-> 738945, text |-> <<"0", "2", "/", "2", "9", "/", "2", "0", "2", "4">>],
      [number |-> 738946, text |-> <<"0", "3", "/", "0", "1", "/", "2", "0", "2", "4">>],
      [number |-> 739251, text |-> <<"1", "2", "/", "3", "1", "/", "2", "0", "2", "4">>],
      [number |-> 739252, text |-> <<"0", "1", "/", "0", "1", "/", "2", "0", "2", "5">>],
      [number |-> 739363, text |-> <<"0", "4", "/", "2", "2", "/", "2", "0", "2", "5">>],
      [number |-> 739364, text |-> <<"0", "4", "/", "2", "3", "/", "2", "0", "2", "5">>],
      [number |-> 739365, text |-> <<"0", "4", "/", "2", "4", "/", "2", "0", "2", "5">>],
      [number |-> 739366, text |-> <<"0", "4", "/", "2", "5", "/", "2", "0", "2", "5">>],
      [number |-> 739367, text |-> <<"0", "4", "/", "2", "6", "/", "2", "0", "2", "5">>],
      [number |-> 739368, text |-> <<"0", "4", "/", "2", "7", "/", "2", "0", "2", "5">>],
      [number |-> 739369, text |-> <<"0", "4", "/", "2", "8", "/", "2", "0", "2", "5">>],
      [number |-> 739370, text |-> <<"0", "4", "/", "2", "9", "/", "2", "0", "2", "5">>],
      [number |-> 739371, text |-> <<"0", "4", "/", "3", "0", "/", "2", "0", "2", "5">>],
      [number |-> 739372, text |-> <<"0", "5", "/", "0", "1", "/", "2", "0", "2", "5">>],
      [number |-> 739373, text |-> <<"0", "5", "/", "0", "2", "/", "2", "0", "2", "5">>],
      [number |-> 739374, text |-> <<"0", "5", "/", "0", "3", "/", "2", "0", "2", "5">>],
      [number |-> 739375, text |-> <<"0", "5", "/", "0", "4", "/", "2", "0", "2", "5">>],
      [number |-> 739376, text |-> <<"0", "5", "/", "0", "5", "/", "2", "0", "2", "5">>],
      [number |-> 739377, text |-> <<"0", "5", "/", "0", "6", "/", "2", "0", "2", "5">>],
      [number |-> 739378, text |-> <<"0", "5", "/", "0", "7", "/", "2", "0", "2", "5">>],
      [number |-> 739379, text |-> <<"0", "5", "/", "0", "8", "/", "2", "0", "2", "5">>],
      [number |-> 739380, text |-> <<"0", "5", "/", "0", "9", "/", "2", "0", "2", "5">>],
      [number |-> 739381, text |-> <<"0", "5", "/", "1", "0", "/", "2", "0", "2", "5">>],
      [number |-> 739382, text |-> <<"0", "5", "/", "1", "1", "/", "2", "0", "2", "5">>],
      [number |-> 739383, text |-> <<"0", "5", "/", "1", "2", "/", "2", "0", "2", "5">>],
      [number |-> 739384, text |-> <<"0", "5", "/", "1", "3", "/", "2", "0", "2", "5">>],
      [number |-> 739385, text |-> <<"0", "5", "/", "1", "4", "/", "2", "0", "2", "5">>],
      [number |-> 739386, text |-> <<"0", "5", "/", "1", "5", "/", "2", "0", "2", "5">>],
      [number |-> 739387, text |-> <<"0", "5", "/", "1", "6", "/", "2", "0", "2", "5">>],
      [number |-> 739388, text |-> <<"0", "5", "/", "1", "7", "/", "2", "0", "2", "5">>],
      [number |-> 739389, text |-> <<"0", "5", "/", "1", "8", "/", "2", "0", "2", "5">>],
      [number |-> 739390, text |-> <<"0", "5", "/", "1", "9", "/", "2", "0", "2", "5">>],
      [number |-> 739391, text |-> <<"0", "5", "/", "2", "0", "/", "2", "0", "2", "5">>],
      [number |-> 739392, text |-> <<"0", "5", "/", "2", "1", "/", "2", "0", "2", "5">>],
      [number |-> 739393, text |-> <<"0", "5", "/", "2", "2", "/", "2", "0", "2", "5">>],
      [number |-> 739394, text |-> <<"0", "5", "/", "2", "3", "/", "2", "0", "2", "5">>],
      [number |-> 3652058, text |-> <<"1", "2", "/", "3", "0", "/", "9", "9", "9", "9">>],
      [number |-> 3652059, text |-> <<"1", "2", "/", "3", "1", "/", "9", "9", "9", "9">>]
    >>

\* the day number of a date text, 0 for a text that is no calendar date in
\* month/day/year form
DayNumberOf(text) ==
    IF text = Date20250101Unpadded THEN 739252
    ELSE IF \E i \in 1..Len(DayTable) : DayTable[i].text = text
         THEN DayTable[CHOOSE i \in 1..Len(DayTable) : DayTable[i].text = text].number
    ELSE 0

WellFormed(text) == DayNumberOf(text) > 0

SpanDays == DayNumberOf(end_date) - DayNumberOf(start_date)

Rejected == ~WellFormed(start_date) \/ ~WellFormed(end_date) \/ SpanDays > 30

\* the days from start to end inclusive, in calendar order
ExpectedDays ==
    LET inside == SelectSeq(DayTable, LAMBDA e : /\ e.number >= DayNumberOf(start_date)
                                                 /\ e.number <= DayNumberOf(end_date))
    IN  [i \in 1..Len(inside) |-> inside[i].text]

\* the dates get_meetings was called with, in the order of the calls
FetchedDates == [i \in 1..Len(fetched) |-> fetched[i].date]

IsPrefix(a, b) == Len(a) <= Len(b) /\ SubSeq(b, 1, Len(a)) = a

\* C11: when either date is no date in month/day/year form, or the end is
\* more than 30 days after the start, get_meeting_range never fetches a day
\* and returns an error value.
C11_NoFetchOnRejectedRange ==
    Rejected =>
        /\ fetched = << >>
        /\ meetings_by_date = << >>
        /\ op # "fetching"
        /\ op = "returned" => IsError(result)

C11_Witness ==
    /\ op = "returned"
    /\ WellFormed(start_date)
    /\ WellFormed(end_date)
    /\ SpanDays = 31
    /\ result = DateRangeTooLarge

\* C12 as stated: for an accepted range the days from start to end are
\* fetched once each in calendar order, and the call ends by returning a
\* result with exactly one entry per day, none when the end is before the
\* start.
C12_EachDayFetchedOnceInOrder ==
    ~Rejected =>
        /\ IsPrefix(FetchedDates, ExpectedDays)
        /\ IsPrefix(Keys(meetings_by_date), ExpectedDays)
        /\ op \notin {"start", "fetching"} =>
              /\ op # "OverflowError"
              /\ FetchedDates = ExpectedDays
              /\ Keys(meetings_by_date) = ExpectedDays

\* the same, for the ranges that end before 12/31/9999
C12_EachDayBeforeLastDayOfCalendar ==
    (~Rejected /\ end_date # Date99991231) =>
        /\ IsPrefix(FetchedDates, ExpectedDays)
        /\ IsPrefix(Keys(meetings_by_date), ExpectedDays)
        /\ op \notin {"start", "fetching"} =>
              /\ op # "OverflowError"
              /\ FetchedDates = ExpectedDays
              /\ Keys(meetings_by_date) = ExpectedDays

\* the remote service did not deliver a list of meetings
Failed(response) ==
    \/ response.raises
    \/ response.status_code # 200
    \/ "Basis" \notin DOMAIN response.json

\* the records of the entries that are lists, placeholders left out
RECURSIVE ListedRecords(_)
ListedRecords(entries) ==
    IF entries = << >> THEN << >>
    ELSE (IF Head(entries).value.type = "list"
          THEN SelectSeq(Head(entries).value.items, LAMBDA m : ~IsPlaceholderRecord(m))
          ELSE << >>)
         \o ListedRecords(Tail(entries))

PageRowCount == LET n[t \in 0..Len(result.tables)] ==
                        IF t = 0 THEN 0 ELSE n[t - 1] + Len(result.tables[t].rows)
                IN  n[Len(result.tables)]

\* C13: the entry of a day whose fetch fails holds the error value and the
\* entry of every other day its list; a failure does not end the loop, the
\* call returns only when every day of the range has been fetched; the page,
\* the generic export and the broadcast export of a range with error entries
\* are produced from the entries that are lists: one row for each record
\* that is no placeholder on the page and in the generic export, and in the
\* broadcast export when an encoder is posted for the record.
C13_FailedDayIsSkipped ==
    ~Rejected =>
        /\ Len(meetings_by_date) = Len(fetched)
        /\ \A i \in 1..Len(fetched) :
              /\ meetings_by_date[i].key = fetched[i].date
              /\ Failed(fetched[i].response) <=> IsError(meetings_by_date[i].value)
              /\ ~Failed(fetched[i].response) <=> meetings_by_date[i].value.type = "list"
        /\ op \in {"returned", "view_range", "export_csv_range", "export_invintus_range"} =>
              FetchedDates = ExpectedDays
        /\ op = "view_range" =>
              /\ result.kind = "page"
              /\ result.total_meetings = Len(ListedRecords(meetings_by_date))
              /\ PageRowCount = Len(ListedRecords(meetings_by_date))
        /\ op = "export_csv_range" =>
              /\ result.kind = "csv"
              /\ Len(result.csv.rows) = Len(ListedRecords(meetings_by_date))
              /\ \A k \in 1..Len(result.csv.rows) :
                    \E i \in 1..Len(meetings_by_date) :
                        /\ meetings_by_date[i].value.type = "list"
                        /\ result.csv.rows[k].date = meetings_by_date[i].key
        /\ op = "export_invintus_range" =>
              /\ result.kind = "csv"
              /\ Len(result.csv.rows) <= Len(ListedRecords(meetings_by_date))
              /\ FormValue(form, <<"e", "n", "c", "o", "d", "e", "r", "_">> \o SenateId) # << >>
                    => Len(result.csv.rows) = Len(ListedRecords(meetings_by_date))

C13_Witness ==
    /\ op = "export_csv_range"
    /\ Len(meetings_by_date) >= 3
    /\ IsError(meetings_by_date[1].value)
    /\ meetings_by_date[2].value.type = "list"
    /\ Len(result.csv.rows) >= 1

-----------------------------------------------------------------------------
(* Records with absent, empty, null and unparseable fields *)

MaxMalformedSlices == 2

MalformedSlices ==
    {Field("BillRoot", b) @@ Field("SliceHighliteText", h) :
        b \in {Absent, None, HB1},
        h \in {Absent, None, << >>, Overview, NoMeetingScheduledNote}}

MalformedFields ==
    {Field("Chamber", c) @@ Field("MeetingTitle", t) @@ Field("MeetingDate", dt)
     @@ Field("MeetingTime", tm) :
        c \in {None, <<"S">>}, t \in {None, FinanceTitle},
        dt \in {Absent, None, IsoDate, ImpossibleDate}, tm \in {Absent, ClockTime}}

MalformedMeetings ==
    MalformedFields
    \cup {f @@ ("MeetingSlices" :> sl) :
             f \in MalformedFields, sl \in SeqsUpTo(MalformedSlices, MaxMalformedSlices)}

UnknownId == (unknown :> Encoder01)

InitMalformed ==
    /\ meeting \in MalformedMeetings
    /\ meetings = <<meeting>>
    /\ encoders = UnknownId
    /\ categories = << >>
    /\ op = "start"
    /\ result = << >>
    /\ NoRequest

GetChamber ==
    /\ op = "start"
    /\ op' = "get_chamber"
    /\ result' = get_chamber(meeting)
    /\ UNCHANGED <<meeting, meetings, encoders, categories, requestVars>>

FormatShortDate ==
    /\ op = "start"
    /\ op' = "format_short_date"
    /\ result' = format_short_date(Get(meeting, "MeetingDate", << >>))
    /\ UNCHANGED <<meeting, meetings, encoders, categories, requestVars>>

FormatDateWithDay ==
    /\ op = "start"
    /\ op' = "format_date_with_day"
    /\ result' = format_date_with_day(Get(meeting, "MeetingDate", << >>))
    /\ UNCHANGED <<meeting, meetings, encoders, categories, requestVars>>

FormatMeetingsCsv ==
    /\ op = "start"
    /\ op' = "format_meetings_csv"
    /\ \E include_date \in BOOLEAN : result' = format_meetings_csv(meetings, include_date)
    /\ UNCHANGED <<meeting, meetings, encoders, categories, requestVars>>

NextMalformed ==
    \/ GetChamber
    \/ BuildTitle
    \/ FormatShortDate
    \/ FormatDateWithDay
    \/ ExtractBills
    \/ BuildDescription
    \/ BuildDescriptionForCsv
    \/ ShouldSkipEvent
    \/ GenerateCustomId
    \/ FormatMeetingsCsv
    \/ FormatInvintusCsv

SpecMalformed == InitMalformed /\ [][NextMalformed]_vars

\* the operation has ended with an exception instead of a value
HasRaised ==
    \/ op = "should_skip_event" /\ result \notin {"True", "False"}
    \/ op \in {"format_meetings_csv", "format_meetings_invintus_csv"} /\ "raised" \in DOMAIN result

\* C14: no operation of the core raises on a record whose fields are absent,
\* empty, null or unparseable; each returns a value.
C14_NoOperationRaises == ~HasRaised

-----------------------------------------------------------------------------
(* The four paths that list records: generic export, broadcast export, the *)
(* page of one date and the page of a range                                *)

RoomA == <<"R", "o", "o", "m", " ", "A">>

RoomC == <<"R", "o", "o", "m", " ", "C">>

RoomM == <<"R", "o", "o", "m", " ", "M">>

RoomN == <<"R", "o", "o", "m", " ", "N">>

RoomP == <<"R", "o", "o", "m", " ", "P">>

RoomU == <<"R", "o", "o", "m", " ", "U">>

CanceledMeeting ==
    ("Chamber" :> <<"H">>) @@ ("MeetingSponsor" :> FIN) @@ ("MeetingTitle" :> RulesTitle)
    @@ ("SponsorType" :> SpecialCommittee) @@ ("MeetingDate" :> IsoDate)
    @@ ("MeetingTime" :> <<"1", "4", ":", "3", "0", ":", "0", "0">>) @@ ("MeetingCanceled" :> TRUE) @@ ("Location" :> RoomC)
    @@ ("MeetingSlices" :> <<("BillRoot" :> SB2) @@ ("SliceHighliteText" :> MeetingCanceledNote),
                             ("SliceHighliteText" :> Overview)>>)

\* a placeholder slice after a slice with real content
MixedMeeting ==
    ("Chamber" :> <<"S">>) @@ ("MeetingSponsor" :> FIN) @@ ("MeetingTitle" :> FishAndGameTitle)
    @@ ("MeetingDate" :> IsoDate) @@ ("MeetingTime" :> <<"0", "9", ":", "0", "0", ":", "0", "0">>) @@ ("Location" :> RoomM)
    @@ ("MeetingSlices" :> <<("BillRoot" :> HB1) @@ ("SliceHighliteText" :> PublicTestimony),
                             ("SliceHighliteText" :> NoMeetingScheduledNote)>>)

UndatedMeeting ==
    ("Chamber" :> <<"S">>) @@ ("MeetingTitle" :> FinanceTitle) @@ ("Location" :> RoomN)
    @@ ("MeetingSlices" :> <<("SliceHighliteText" :> Overview)>>)

UpperCasePlaceholderMeeting ==
    ("Chamber" :> <<"H">>) @@ ("MeetingSponsor" :> FIN) @@ ("MeetingDate" :> IsoDate)
    @@ ("MeetingTime" :> <<"1", "6", ":", "0", "0", ":", "0", "0">>) @@ ("Location" :> RoomU)
    @@ ("MeetingSlices" :> <<("SliceHighliteText" :> upper(no_meeting_scheduled))>>)

ListedMeetings ==
    {("Location" :> RoomA) @@ FinanceMeeting, ("Location" :> RoomP) @@ PlaceholderMeeting,
     CanceledMeeting, MixedMeeting, UndatedMeeting, UpperCasePlaceholderMeeting}

InitListing ==
    /\ meeting = << >>
    /\ meetings \in SeqsUpTo(ListedMeetings, MaxMeetings)
    /\ encoders = [id \in {generate_custom_id(m) : m \in ListedMeetings} |-> Encoder01]
    /\ categories = << >>
    /\ op = "start"
    /\ result = << >>
    /\ NoRequest

\* lines 867-870: the page of one date, for the list get_meetings returned
RenderMeetings ==
    /\ op = "start"
    /\ op' = "render_meetings_html"
    /\ result' = render_meetings_html(ListValue(meetings), Date20250422, FALSE)
    /\ UNCHANGED <<meeting, meetings, encoders, categories, requestVars>>

\* lines 879-883: the page of a range, the records being those of two days
\* with a failed day between them
RenderMeetingsRange ==
    /\ op = "start"
    /\ op' = "render_meetings_html range"
    /\ \E k \in 0..Len(meetings) :
          /\ meetings_by_date' =
                <<[key |-> Date20250422, value |-> ListValue(SubSeq(meetings, 1, k))],
                  [key |-> <<"0", "4", "/", "2", "3", "/", "2", "0", "2", "5">>, value |-> InvalidDateFormat],
                  [key |-> <<"0", "4", "/", "2", "4", "/", "2", "0", "2", "5">>, value |-> ListValue(SubSeq(meetings, k + 1, Len(meetings)))]>>
          /\ result' = render_meetings_html([type |-> "dict", entries |-> meetings_by_date'],
                                            [start |-> Date20250422, end |-> <<"0", "4", "/", "2", "4", "/", "2", "0", "2", "5">>], TRUE)
    /\ UNCHANGED <<meeting, meetings, encoders, categories, start_date, end_date, current,
                   fetched, form>>

NextListing == FormatMeetingsCsv \/ FormatInvintusCsv \/ RenderMeetings \/ RenderMeetingsRange

SpecListing == InitListing /\ [][NextListing]_vars

\* the records of the list that are no placeholders
Listed == SelectSeq(meetings, LAMBDA m : ~IsPlaceholderRecord(m))

PlaceholderRooms == {m["Location"] : m \in {x \in ListedMeetings : IsPlaceholderRecord(x)}}

LocationsOf(rows) == [k \in 1..Len(rows) |-> rows[k].location]

RoomsOf(ms) == [k \in 1..Len(ms) |-> ms[k]["Location"]]

\* the rows of the tables of the page, in the order of the tables
RECURSIVE RowsOfTables(_)
RowsOfTables(tables) ==
    IF tables = << >> THEN << >> ELSE Head(tables).rows \o RowsOfTables(Tail(tables))

\* C16: a record for which should_skip_event is true gives no row in the
\* generic export, no row in the broadcast export, and no table entry and no
\* count on the page of one date and of a range; every other record gives
\* its row in the generic export and on the pages.
C16_SkippedRecordIsNowhere ==
    /\ op = "format_meetings_csv" =>
          LocationsOf(result.rows) = RoomsOf(Listed)
    /\ op = "format_meetings_invintus_csv" =>
          /\ \A k \in 1..Len(result.rows) : result.rows[k].location \notin PlaceholderRooms
          /\ Len(result.rows) = Len(SelectSeq(Listed, LAMBDA m : "MeetingDate" \in DOMAIN m))
    /\ op \in {"render_meetings_html", "render_meetings_html range"} =>
          /\ result.total_meetings = Len(Listed)
          /\ LocationsOf(RowsOfTables(result.tables)) = RoomsOf(Listed)

C16_Witness ==
    /\ op = "render_meetings_html range"
    /\ Len(meetings) = 2
    /\ meetings[1] = MixedMeeting
    /\ meetings_by_date[3].value.items = <<CanceledMeeting>>
    /\ result.total_meetings = 1

PairwiseDistinct(items) ==
    \A i, j \in 1..Len(items) : items[i] = items[j] => i = j

\* C18: within each bill group the details are pairwise distinct, and the
\* general items are pairwise distinct.
C18_DetailsAndGeneralItemsDistinct ==
    op = "extract_bills_with_details" =>
        /\ \A g \in 1..Len(result.bill_details) : PairwiseDistinct(result.bill_details[g].details)
        /\ PairwiseDistinct(result.general_items)

\* the general items are pairwise distinct (line 216)
C18_GeneralItemsDistinct ==
    op = "extract_bills_with_details" => PairwiseDistinct(result.general_items)

\* a highlight repeated on two slices of a bill is twice in its details
C18_RepeatedHighlightKeptTwice ==
    /\ op = "extract_bills_with_details"
    /\ Len(meeting["MeetingSlices"]) = 2
    /\ meeting["MeetingSlices"][1] = meeting["MeetingSlices"][2]
    /\ Len(result.bill_details) = 1
    /\ Len(result.bill_details[1].details) = 2
    /\ result.bill_details[1].details[1] = result.bill_details[1].details[2]

-----------------------------------------------------------------------------
(* Description of a record whose slices carry short titles *)

MaxTitledSlices == 3

Budget == <<"B", "u", "d", "g", "e", "t">>

Roads == <<"R", "o", "a", "d", "s">>

TitledSlices ==
    {("BillRoot" :> bill) @@ ("SliceHighliteText" :> PublicTestimony) @@ t :
        bill \in {HB1, SB2},
        t \in {<< >>, ("ShortTitle" :> << >>), ("ShortTitle" :> Budget), ("ShortTitle" :> Roads)}}
    \cup {("BillRoot" :> HB1) @@ ("ShortTitle" :> Budget)}

InitTitled ==
    /\ meeting \in {("MeetingSlices" :> sl) : sl \in SeqsUpTo(TitledSlices, MaxTitledSlices)}
    /\ meetings = << >>
    /\ encoders = << >>
    /\ categories = << >>
    /\ op = "start"
    /\ result = << >>
    /\ NoRequest

SpecTitled == InitTitled /\ [][NextDescription]_vars

\* the short title of the first slice of the bill that has a non-empty one
RECURSIVE FirstNonEmptyShortTitle(_, _)
FirstNonEmptyShortTitle(slices, bill) ==
    IF slices = << >> THEN << >>
    ELSE IF /\ Get(Head(slices), "BillRoot", None) = bill
            /\ Get(Head(slices), "ShortTitle", << >>) # << >>
         THEN Head(slices)["ShortTitle"]
    ELSE FirstNonEmptyShortTitle(Tail(slices), bill)

\* the text of a bill group with that short title
TitledBillText(m, item) ==
    LET short_title == FirstNonEmptyShortTitle(m["MeetingSlices"], item.bill)
    IN  IF item.details = << >> THEN item.bill
        ELSE item.bill \o (IF short_title # << >> THEN <<" ">> \o short_title ELSE << >>)
             \o <<" ">> \o join(<<" ">>, item.details)

\* C17: the short title rendered for a bill group is that of the first slice
\* of the bill, in original order, that has a non-empty short title, and it
\* is absent only when no slice of the bill has a non-empty short title.
C17_ShortTitleIsFirstNonEmpty ==
    op \in {"build_description", "build_description for_csv"} =>
        LET bill_details == extract_bills_with_details(meeting).bill_details
        IN  bill_details # << >> =>
                result = <<"B", "i", "l", "l", "s", ":", " ">> \o join(<<",", " ">>,
                            [g \in 1..Len(bill_details) |-> TitledBillText(meeting, bill_details[g])])

\* when every slice that has the key has a non-empty short title, the
\* rendered short title is the first one of the bill
C17_FirstShortTitleWhenNoneIsEmpty ==
    (\A i \in 1..Len(meeting["MeetingSlices"]) :
        Get(meeting["MeetingSlices"][i], "ShortTitle", Budget) # << >>)
    => C17_ShortTitleIsFirstNonEmpty

\* an empty short title on the first slice of the bill hides the later one
C17_EmptyShortTitleHidesLater ==
    /\ op = "build_description"
    /\ meeting["MeetingSlices"] =
          <<("BillRoot" :> HB1) @@ ("SliceHighliteText" :> PublicTestimony) @@ ("ShortTitle" :> << >>),
            ("BillRoot" :> HB1) @@ ("SliceHighliteText" :> PublicTestimony) @@ ("ShortTitle" :> Budget)>>
    /\ result = <<"B", "i", "l", "l", "s", ":", " ", "H", "B", "1", " ", "P", "u", "b", "l", "i", "c", " ", "t", "e", "s", "t", "i", "m", "o", "n", "y", " ", "P", "u", "b", "l", "i", "c", " ", "t", "e", "s", "t", "i", "m", "o", "n", "y">>

-----------------------------------------------------------------------------
(* The time column of the generic export *)

MaxTimedMeetings == 2

Afternoon == <<"1", "4", ":", "3", "0", ":", "0", "0">>

AfterMidnight == <<"0", "0", ":", "0", "5", ":", "0", "0">>

Noon == <<"1", "2", ":", "0", "0", ":", "0", "0">>

WithoutSeconds == <<"1", "0", ":", "0", "0">>

TimedMeetings ==
    {Field("MeetingDate", d) @@ Field("MeetingTime", t) :
        d \in {Absent, None, << >>, IsoDate, ImpossibleDate, UnpaddedDate},
        t \in {Absent, None, ClockTime, Afternoon, AfterMidnight, Noon, WithoutSeconds}}

InitTimed ==
    /\ meeting = << >>
    /\ meetings \in SeqsUpTo(TimedMeetings, MaxTimedMeetings)
    /\ encoders = << >>
    /\ categories = << >>
    /\ op = "start"
    /\ result = << >>
    /\ NoRequest

SpecTimed == InitTimed /\ [][FormatMeetingsCsv]_vars

\* the dates and times that are jointly of the form year-month-day
\* hour:minute:second, with the date-time they are written as
FormattedStamps ==
    {[date |-> <<"2", "0", "2", "5", "-", "0", "4", "-", "2", "2">>, time |-> <<"1", "0", ":", "0", "0", ":", "0", "0">>,
      text |-> <<"2", "0", "2", "5", "-", "0", "4", "-", "2", "2", " ", "1", "0", ":", "0", "0", " ", "A", "M">>],
     [date |-> <<"2", "0", "2", "5", "-", "0", "4", "-", "2", "2">>, time |-> <<"1", "4", ":", "3", "0", ":", "0", "0">>,
      text |-> <<"2", "0", "2", "5", "-", "0", "4", "-", "2", "2", " ", "0", "2", ":", "3", "0", " ", "P", "M">>],
     [date |-> <<"2", "0", "2", "5", "-", "0", "4", "-", "2", "2">>, time |-> <<"0", "0", ":", "0", "5", ":", "0", "0">>,
      text |-> <<"2", "0", "2", "5", "-", "0", "4", "-", "2", "2", " ", "1", "2", ":", "0", "5", " ", "A", "M">>],
     [date |-> <<"2", "0", "2", "5", "-", "0", "4", "-", "2", "2">>, time |-> <<"1", "2", ":", "0", "0", ":", "0", "0">>,
      text |-> <<"2", "0", "2", "5", "-", "0", "4", "-", "2", "2", " ", "1", "2", ":", "0", "0", " ", "P", "M">>],
     [date |-> <<"2", "0", "2", "5", "-", "4", "-", "2", "2">>, time |-> <<"1", "0", ":", "0", "0", ":", "0", "0">>,
      text |-> <<"2", "0", "2", "5", "-", "0", "4", "-", "2", "2", " ", "1", "0", ":", "0", "0", " ", "A", "M">>],
     [date |-> <<"2", "0", "2", "5", "-", "4", "-", "2", "2">>, time |-> <<"1", "4", ":", "3", "0", ":", "0", "0">>,
      text |-> <<"2", "0", "2", "5", "-", "0", "4", "-", "2", "2", " ", "0", "2", ":", "3", "0", " ", "P", "M">>],
     [date |-> <<"2", "0", "2", "5", "-", "4", "-", "2", "2">>, time |-> <<"0", "0", ":", "0", "5", ":", "0", "0">>,
      text |-> <<"2", "0", "2", "5", "-", "0", "4", "-", "2", "2", " ", "1", "2", ":", "0", "5", " ", "A", "M">>],
     [date |-> <<"2", "0", "2", "5", "-", "4", "-", "2", "2">>, time |-> <<"1", "2", ":", "0", "0", ":", "0", "0">>,
      text |-> <<"2", "0", "2", "5", "-", "0", "4", "-", "2", "2", " ", "1", "2", ":", "0", "0", " ", "P", "M">>]}

StampOf(m) == {s \in FormattedStamps : s.date = m["MeetingDate"] /\ s.time = m["MeetingTime"]}

HasValue(m, key) == key \in DOMAIN m /\ m[key] \notin {None, << >>}

\* C19: the time column is the formatted date-time when MeetingDate and
\* MeetingTime are both present and jointly parseable, the raw
\* concatenation "<date> <time>" when both are present but not parseable,
\* and empty when either is absent; no row is dropped and nothing is raised.
C19_TimeColumn ==
    op = "format_meetings_csv" =>
        /\ "rows" \in DOMAIN result
        /\ Len(result.rows) = Len(meetings)
        /\ \A k \in 1..Len(meetings) :
              LET m == meetings[k]
              IN  result.rows[k].time =
                      IF ~(HasValue(m, "MeetingDate") /\ HasValue(m, "MeetingTime")) THEN << >>
                      ELSE IF StampOf(m) # {} THEN (CHOOSE s \in StampOf(m) : TRUE).text
                      ELSE m["MeetingDate"] \o <<" ">> \o m["MeetingTime"]

C19_Witness ==
    /\ op = "format_meetings_csv"
    /\ Len(result.rows) = 2
    /\ meetings[1] = ("MeetingDate" :> IsoDate) @@ ("MeetingTime" :> Noon)
    /\ result.rows[1].time = <<"2", "0", "2", "5", "-", "0", "4", "-", "2", "2", " ", "1", "2", ":", "0", "0", " ", "P", "M">>
    /\ meetings[2] = ("MeetingDate" :> ImpossibleDate) @@ ("MeetingTime" :> ClockTime)
    /\ result.rows[2].time = <<"2", "0", "2", "5", "-", "0", "2", "-", "3", "0", " ", "1", "0", ":", "0", "0", ":", "0", "0">>

-----------------------------------------------------------------------------
(* The broadcast export of the meetings selected on the page *)

\* lines 945-999: the broadcast export of one date, the date being start_date;
\* meetings keeps the list the remote calendar gave
ExportInvintus ==
    /\ op = "start"
    /\ start_date = end_date
    /\ \E response \in Responses, posted \in RangeForms :
          /\ form' = posted
          /\ meetings' = (IF IsList(get_meetings(response)) THEN get_meetings(response).items ELSE << >>)
          /\ result' = export_invintus(get_meetings(response), posted)
    /\ op' = "export_invintus"
    /\ UNCHANGED <<meeting, encoders, categories, start_date, end_date, current,
                   meetings_by_date, fetched>>

\* the requests for a range and the export of one date
NextSelected == NextRange \/ ExportInvintus

SpecSelected == InitRange /\ [][NextSelected]_vars

\* the records the export has fetched that are no placeholders
FetchedRecords ==
    IF op = "export_invintus" THEN SelectSeq(meetings, LAMBDA m : ~IsPlaceholderRecord(m))
    ELSE ListedRecords(meetings_by_date)

IdentifierIn(m) == m["Chamber"] \o <<"-">> \o m["MeetingSponsor"] \o <<"2", "0", "2", "5", "0", "4", "2", "2", "1", "0", "0", "0", "0", "0">>

\* a selected record that is no placeholder and whose date and time parse
SelectedForExport(m) ==
    /\ m["MeetingDate"] = IsoDate
    /\ m["MeetingTime"] = ClockTime
    /\ \E i \in 1..Len(form.selected_meetings) : form.selected_meetings[i] = IdentifierIn(m)

EncoderPosted(m) == Get(form.fields, <<"e", "n", "c", "o", "d", "e", "r", "_">> \o IdentifierIn(m), << >>)

\* C20: in export_invintus and export_invintus_range every selected meeting
\* that is no placeholder and has a parseable date and time has a row in the
\* CSV, also when no encoder was chosen for it, and then with a blank
\* encoder.
C20_SelectedMeetingIsExported ==
    (op \in {"export_invintus", "export_invintus_range"} /\ result.kind = "csv") =>
        \A i \in 1..Len(FetchedRecords) :
            SelectedForExport(FetchedRecords[i]) =>
                \E k \in 1..Len(result.csv.rows) :
                    /\ result.csv.rows[k].customID = IdentifierIn(FetchedRecords[i])
                    /\ result.csv.rows[k].encoder = EncoderPosted(FetchedRecords[i])

\* every selected meeting for which an encoder was chosen has its row
C20_SelectedMeetingWithEncoderIsExported ==
    (op \in {"export_invintus", "export_invintus_range"} /\ result.kind = "csv") =>
        \A i \in 1..Len(FetchedRecords) :
            (SelectedForExport(FetchedRecords[i]) /\ EncoderPosted(FetchedRecords[i]) # << >>) =>
                \E k \in 1..Len(result.csv.rows) :
                    /\ result.csv.rows[k].customID = IdentifierIn(FetchedRecords[i])
                    /\ result.csv.rows[k].encoder = EncoderPosted(FetchedRecords[i])

\* a selected meeting without an encoder is left out of the export of a range
C20_SelectedMeetingWithoutEncoderLeftOut ==
    /\ op = "export_invintus_range"
    /\ result.kind = "csv"
    /\ Len(FetchedRecords) = 1
    /\ SelectedForExport(FetchedRecords[1])
    /\ EncoderPosted(FetchedRecords[1]) = << >>
    /\ result.csv.rows = << >>

\* and of the export of one date
C20_SelectedMeetingWithoutEncoderLeftOutOfDate ==
    /\ op = "export_invintus"
    /\ result.kind = "csv"
    /\ Len(FetchedRecords) = 1
    /\ SelectedForExport(FetchedRecords[1])
    /\ EncoderPosted(FetchedRecords[1]) = << >>
    /\ result.csv.rows = << >>

-----------------------------------------------------------------------------
(* The link "Export All to CSV" of the page of a range *)

\* lines 886-904, on the value get_meetings has returned for the date
export_csv(found, date) ==
    IF IsError(found) THEN ErrorReply(found)
    ELSE [kind |-> "csv",
          csv |-> format_meetings_csv(found.items, FALSE),
          filename |-> <<"m", "e", "e", "t", "i", "n", "g", "s", "_">> \o replace(date, <<"/">>, <<"-">>) \o <<".", "c", "s", "v">>]

\* lines 911-914: the two dates of "<start> to <end>", the date twice when
\* there is no " to "; the unpacking raises ValueError for more than two parts
SplitDates(date) ==
    LET at == find(date, <<" ", "t", "o", " ">>)
        rest == SubSeq(date, at + 4, Len(date))
    IN  IF at = 0 THEN [ok |-> TRUE, start |-> date, end |-> date]
        ELSE IF contains(rest, <<" ", "t", "o", " ">>) THEN [ok |-> FALSE, start |-> << >>, end |-> << >>]
        ELSE [ok |-> TRUE, start |-> SubSeq(date, 1, at - 1), end |-> rest]

\* lines 472-474 and 906-919: the request the link of the page of a range
\* makes, GET export_csv_range?date=<date of the link>. One date goes to
\* export_csv, which fetches that date; two dates start get_meeting_range
\* anew, for export_csv_range to go on when it has returned
FollowExportAll ==
    /\ op = "view_range"
    /\ result.kind = "page"
    /\ result.export_all.path = "export_csv_range"
    /\ LET date == result.export_all.date
           dates == SplitDates(date)
       IN  IF ~dates.ok
           THEN /\ op' = "ValueError"
                /\ UNCHANGED <<result, start_date, end_date, current, meetings_by_date, fetched>>
           ELSE IF dates.start = dates.end
           THEN /\ \E response \in Responses :
                      /\ fetched' = Append(fetched, [date |-> date, response |-> response])
                      /\ result' = export_csv(get_meetings(response), date)
                /\ op' = "export_csv"
                /\ UNCHANGED <<start_date, end_date, current, meetings_by_date>>
           ELSE /\ start_date' = dates.start
                /\ end_date' = dates.end
                /\ current' = None
                /\ meetings_by_date' = << >>
                /\ fetched' = << >>
                /\ result' = << >>
                /\ op' = "start"
    /\ UNCHANGED <<meeting, meetings, encoders, categories, form>>

\* the requests for a range, and the link of the page followed
NextExportAll == NextRange \/ FollowExportAll

SpecExportAll == InitRange /\ [][NextExportAll]_vars

\* the dates fetched after the page was shown
FetchedForExport == SubSeq(FetchedDates, Len(ExpectedDays) + 1, Len(fetched))

RangeFilename ==
    <<"m", "e", "e", "t", "i", "n", "g", "s", "_">> \o replace(start_date, <<"/">>, <<"-">>) \o <<"_", "t", "o", "_">>
    \o replace(end_date, <<"/">>, <<"-">>) \o <<".", "c", "s", "v">>

\* C21: "Export All to CSV" on the page of a range exports the meetings of
\* every date from start to end, through export_csv_range with the date
\* column, and not only the meetings of the start date.
C21_ExportAllCoversTheRange ==
    op = "export_csv" =>
        /\ FetchedForExport = ExpectedDays
        /\ result.kind = "csv" =>
              /\ result.csv.header = <<"date">> \o CsvFields
              /\ result.filename = RangeFilename

\* the link exports the start date alone, as export_csv does: one fetch, of
\* the start date, no date column, and the file name of a single date
C21_ExportAllIsTheStartDateOnly ==
    op = "export_csv" =>
        /\ FetchedForExport = <<start_date>>
        /\ result.kind = "csv" =>
              /\ result.csv.header = CsvFields
              /\ result.filename = <<"m", "e", "e", "t", "i", "n", "g", "s", "_">> \o replace(start_date, <<"/">>, <<"-">>) \o <<".", "c", "s", "v">>

\* the page of a range of two days lists a meeting on its second day, and
\* the export that the link gives fetches the first day only and has no row
C21_SecondDayLeftOut ==
    /\ op = "export_csv"
    /\ Len(ExpectedDays) = 2
    /\ meetings_by_date[1].value = ListValue(<< >>)
    /\ meetings_by_date[2].value = ListValue(<<PlaceholderMeeting, FinanceMeeting>>)
    /\ FetchedForExport = <<ExpectedDays[1]>>
    /\ fetched[3].response = QuietDay
    /\ result.kind = "csv"
    /\ result.csv.rows = << >>

====
